---- MODULE Spec2Model ----
(***************************************************************************)
(* protog: a generator that turns a protobuf message schema into a         *)
(* streaming JSON parser.  The model has two layers, both translated from  *)
(* src/src/protog.cpp:                                                     *)
(*   1. the generator: Graph (the parse graph and its category lists) and  *)
(*      Printer (the case tables it prints into the emitted handlers);     *)
(*   2. the emitted parser: the state struct and the SAX handlers, driven  *)
(*      by the events the JSON tokenizer (yajl) delivers.                  *)
(***************************************************************************)
EXTENDS Integers, Sequences, FiniteSets, TLC

(***************************************************************************)
(* Bounds of the model.                                                    *)
(***************************************************************************)
\* number of SAX events the tokenizer delivers to one parser state
MaxEvents == 9
\* number of reset calls on one parser state
MaxResets == 1
\* number of on_chunk calls a caller of the chunk API feeds one document in
MaxChunks == 3
\* number of nested calls of parseMessageDescRec the generator's stack holds
MaxStack == 5

(***************************************************************************)
(* Schemas: what the descriptor pool hands the generator.  A field is      *)
(* (name, type, label, message type); a message is its fields in           *)
(* declaration order.                                                      *)
(***************************************************************************)
Field(n, t, l, m) == [name |-> n, type |-> t, label |-> l, msg |-> m]

\* Node::field of the root (nullptr)
NoField == Field("", "none", "none", "")

is_repeated(f) == f.label = "repeated"

is_optional(f) == f.label = "optional"

SchemaFlat ==
    [root |-> "Flat",
     msgs |-> ("Flat" :> << Field("flag", "TYPE_BOOL", "optional", ""),
                            Field("n", "TYPE_INT64", "required", ""),
                            Field("bits", "TYPE_BOOL", "repeated", "") >>)]

SchemaText ==
    [root |-> "Text",
     msgs |-> ("Text" :> << Field("d", "TYPE_DOUBLE", "optional", ""),
                            Field("ss", "TYPE_STRING", "repeated", ""),
                            Field("k", "TYPE_ENUM", "required", "") >>)]

SchemaNest ==
    [root |-> "Nest",
     msgs |-> ("Nest" :> << Field("p", "TYPE_MESSAGE", "optional", "Point"),
                            Field("ps", "TYPE_MESSAGE", "repeated", "Point") >>
            @@ "Point" :> << Field("x", "TYPE_INT64", "required", ""),
                             Field("ls", "TYPE_MESSAGE", "repeated", "Leaf"),
                             Field("l", "TYPE_MESSAGE", "optional", "Leaf") >>
            @@ "Leaf" :> << Field("v", "TYPE_STRING", "optional", "") >>)]

Schemas == << SchemaFlat, SchemaText, SchemaNest >>

SchemaIds == 1 .. Len(Schemas)

(***************************************************************************)
(* The parse graph.                                                        *)
(***************************************************************************)
\* mutant: the TODO done by half, uint64 handed on as a LONG
getNodeTypeForProtoType_uint64(type) ==
    CASE type = "TYPE_BOOL" -> "BOOL"
      [] type \in {"TYPE_INT32", "TYPE_INT64", "TYPE_UINT32", "TYPE_FIXED32",
                   "TYPE_FIXED64", "TYPE_SFIXED32", "TYPE_SFIXED64",
                   "TYPE_SINT32", "TYPE_SINT64", "TYPE_UINT64"} -> "LONG"
      [] type \in {"TYPE_FLOAT", "TYPE_DOUBLE"} -> "DOUBLE"
      [] type = "TYPE_STRING" -> "STRING"
      [] type = "TYPE_MESSAGE" -> "OUTSIDE_OBJECT"
      [] type = "TYPE_ENUM" -> "LONG"
      [] OTHER -> "UNSUPPORTED"

getNodeTypeForProtoType(type) ==
    CASE type = "TYPE_BOOL" -> "BOOL"
      [] type \in {"TYPE_INT32", "TYPE_INT64", "TYPE_UINT32", "TYPE_FIXED32",
                   "TYPE_FIXED64", "TYPE_SFIXED32", "TYPE_SFIXED64",
                   "TYPE_SINT32", "TYPE_SINT64"} -> "LONG"
      [] type \in {"TYPE_FLOAT", "TYPE_DOUBLE"} -> "DOUBLE"
      [] type = "TYPE_STRING" -> "STRING"
      [] type = "TYPE_MESSAGE" -> "OUTSIDE_OBJECT"
      [] type = "TYPE_ENUM" -> "LONG"
      [] OTHER -> "UNSUPPORTED"

\* struct Node; parent and children are states (0: nullptr)
NewNode(parent, state) ==
    [parent |-> parent, children |-> <<>>, type |-> "", state |-> state,
     name |-> "", desc |-> "", field |-> NoField]

\* struct Graph after its constructor: the root holds state 1
NewGraph ==
    [stateCounter |-> 1,
     nodes |-> << NewNode(0, 1) >>,
     all_nodes |-> <<>>, null_nodes |-> <<>>, bool_nodes |-> <<>>,
     long_nodes |-> <<>>, double_nodes |-> <<>>, string_nodes |-> <<>>,
     object_nodes |-> <<>>, key_nodes |-> <<>>, array_nodes |-> <<>>,
     failed |-> FALSE, overflow |-> FALSE]

\* mutant: children.insert(children.begin(), new Node())
addChild_front(g, node) ==
    LET s == g.stateCounter + 1
    IN  [g EXCEPT !.stateCounter = s,
                  !.nodes = Append([@ EXCEPT ![node].children = << s >> \o @],
                                   NewNode(node, s))]

\* mutant: child.state = stateCounter++
addChild_postIncrement(g, node) ==
    LET s == g.stateCounter + 1
    IN  [g EXCEPT !.stateCounter = s,
                  !.nodes = Append([@ EXCEPT ![node].children = Append(@, s)],
                                   NewNode(node, s - 1))]

\* the child is the node whose state is the new stateCounter
addChild(g, node) ==
    LET s == g.stateCounter + 1
    IN  [g EXCEPT !.stateCounter = s,
                  !.nodes = Append([@ EXCEPT ![node].children = Append(@, s)],
                                   NewNode(node, s))]

\* mutant: the hack that allows 1/0 as true/false, pushed twice
addNodeToTypeLists_twice(g, n) ==
    LET node == g.nodes[n]
        g1 == [g EXCEPT !.all_nodes = Append(@, n)]
        g2 == IF node.field # NoField /\ is_optional(node.field)
              THEN [g1 EXCEPT !.null_nodes = Append(@, n)]
              ELSE g1
    IN  CASE node.type = "BOOL" ->
                [g2 EXCEPT !.bool_nodes = Append(@, n),
                           !.long_nodes = Append(Append(@, n), n)]
          [] node.type = "LONG" ->
                [g2 EXCEPT !.long_nodes = Append(@, n)]
          [] node.type = "DOUBLE" ->
                [g2 EXCEPT !.double_nodes = Append(@, n),
                           !.long_nodes = Append(@, n)]
          [] node.type = "STRING" ->
                [g2 EXCEPT !.string_nodes = Append(@, n)]
          [] node.type = "INSIDE_OBJECT" ->
                [g2 EXCEPT !.object_nodes = Append(@, n)]
          [] node.type = "OUTSIDE_OBJECT" ->
                [g2 EXCEPT !.key_nodes = Append(@, n)]
          [] node.type = "ARRAY" ->
                [g2 EXCEPT !.array_nodes = Append(@, n)]
          [] OTHER -> g2

\* mutant: without the hack that allows ints as doubles
addNodeToTypeLists_noWiden(g, n) ==
    LET node == g.nodes[n]
        g1 == [g EXCEPT !.all_nodes = Append(@, n)]
        g2 == IF node.field # NoField /\ is_optional(node.field)
              THEN [g1 EXCEPT !.null_nodes = Append(@, n)]
              ELSE g1
    IN  CASE node.type = "BOOL" ->
                [g2 EXCEPT !.bool_nodes = Append(@, n),
                           !.long_nodes = Append(@, n)]
          [] node.type = "LONG" ->
                [g2 EXCEPT !.long_nodes = Append(@, n)]
          [] node.type = "DOUBLE" ->
                [g2 EXCEPT !.double_nodes = Append(@, n)]
          [] node.type = "STRING" ->
                [g2 EXCEPT !.string_nodes = Append(@, n)]
          [] node.type = "INSIDE_OBJECT" ->
                [g2 EXCEPT !.object_nodes = Append(@, n)]
          [] node.type = "OUTSIDE_OBJECT" ->
                [g2 EXCEPT !.key_nodes = Append(@, n)]
          [] node.type = "ARRAY" ->
                [g2 EXCEPT !.array_nodes = Append(@, n)]
          [] OTHER -> g2

\* mutant: every node that has a field is indexed as nullable
addNodeToTypeLists_allNull(g, n) ==
    LET node == g.nodes[n]
        g1 == [g EXCEPT !.all_nodes = Append(@, n)]
        g2 == IF node.field # NoField
              THEN [g1 EXCEPT !.null_nodes = Append(@, n)]
              ELSE g1
    IN  CASE node.type = "BOOL" ->
                [g2 EXCEPT !.bool_nodes = Append(@, n),
                           !.long_nodes = Append(@, n)]
          [] node.type = "LONG" ->
                [g2 EXCEPT !.long_nodes = Append(@, n)]
          [] node.type = "DOUBLE" ->
                [g2 EXCEPT !.double_nodes = Append(@, n),
                           !.long_nodes = Append(@, n)]
          [] node.type = "STRING" ->
                [g2 EXCEPT !.string_nodes = Append(@, n)]
          [] node.type = "INSIDE_OBJECT" ->
                [g2 EXCEPT !.object_nodes = Append(@, n)]
          [] node.type = "OUTSIDE_OBJECT" ->
                [g2 EXCEPT !.key_nodes = Append(@, n)]
          [] node.type = "ARRAY" ->
                [g2 EXCEPT !.array_nodes = Append(@, n)]
          [] OTHER -> g2

addNodeToTypeLists(g, n) ==
    LET node == g.nodes[n]
        g1 == [g EXCEPT !.all_nodes = Append(@, n)]
        g2 == IF node.field # NoField /\ is_optional(node.field)
              THEN [g1 EXCEPT !.null_nodes = Append(@, n)]
              ELSE g1
    IN  CASE node.type = "BOOL" ->
                [g2 EXCEPT !.bool_nodes = Append(@, n),
                           !.long_nodes = Append(@, n)]
          [] node.type = "LONG" ->
                [g2 EXCEPT !.long_nodes = Append(@, n)]
          [] node.type = "DOUBLE" ->
                [g2 EXCEPT !.double_nodes = Append(@, n),
                           !.long_nodes = Append(@, n)]
          [] node.type = "STRING" ->
                [g2 EXCEPT !.string_nodes = Append(@, n)]
          [] node.type = "INSIDE_OBJECT" ->
                [g2 EXCEPT !.object_nodes = Append(@, n)]
          [] node.type = "OUTSIDE_OBJECT" ->
                [g2 EXCEPT !.key_nodes = Append(@, n)]
          [] node.type = "ARRAY" ->
                [g2 EXCEPT !.array_nodes = Append(@, n)]
          [] OTHER -> g2

injectArrayNode(g, desc, fieldDesc, type, node) ==
    LET g1 == addChild(g, node)
        arrChild == g1.stateCounter
        g2 == [g1 EXCEPT !.nodes[arrChild].name = fieldDesc.name,
                         !.nodes[arrChild].type = type,
                         !.nodes[arrChild].field = fieldDesc,
                         !.nodes[arrChild].desc = desc]
    IN  addNodeToTypeLists(g2, arrChild)

\* mutant: the object node is hung beside the key node, not under it
injectObjectNode_sibling(g, desc, fieldDesc, keyNode) ==
    LET g1 == addChild(g, g.nodes[keyNode].parent)
        objNode == g1.stateCounter
        g2 == [g1 EXCEPT !.nodes[objNode].name = g1.nodes[keyNode].name,
                         !.nodes[objNode].type = "INSIDE_OBJECT",
                         !.nodes[objNode].field = fieldDesc,
                         !.nodes[objNode].desc = desc]
    IN  addNodeToTypeLists(g2, objNode)

injectObjectNode(g, desc, fieldDesc, keyNode) ==
    LET g1 == addChild(g, keyNode)
        objNode == g1.stateCounter
        g2 == [g1 EXCEPT !.nodes[objNode].name = g1.nodes[keyNode].name,
                         !.nodes[objNode].type = "INSIDE_OBJECT",
                         !.nodes[objNode].field = fieldDesc,
                         !.nodes[objNode].desc = desc]
    IN  addNodeToTypeLists(g2, objNode)

RECURSIVE parseMessageDescRec(_, _, _, _, _, _)
\* the loop of parseMessageDescRec from field f on, in the call nested depth
\* deep; a throw sets failed and unwinds, and a call the stack has no room
\* for sets overflow and ends the walk
parseMessageDescRec(g, schema, desc, node, f, depth) ==
    IF g.failed \/ g.overflow \/ f > Len(schema.msgs[desc])
    THEN g
    ELSE IF depth > MaxStack
    THEN [g EXCEPT !.overflow = TRUE]
    ELSE
    LET fieldDesc == schema.msgs[desc][f]
        type == getNodeTypeForProtoType(fieldDesc.type)
        isRepeated == is_repeated(fieldDesc)
        g1 == addChild(g, node)
        child == g1.stateCounter
        g2 == [g1 EXCEPT !.nodes[child].name = fieldDesc.name,
                         !.nodes[child].field = fieldDesc,
                         !.nodes[child].desc = desc]
        done ==
            IF type = "UNSUPPORTED"
            THEN [g EXCEPT !.failed = TRUE]
            ELSE IF ~isRepeated
            THEN LET g3 == addNodeToTypeLists(
                               [g2 EXCEPT !.nodes[child].type = type], child)
                 IN  IF type = "OUTSIDE_OBJECT"
                     THEN LET g4 == injectObjectNode(g3, desc, fieldDesc, child)
                          IN  parseMessageDescRec(g4, schema, fieldDesc.msg,
                                                  g4.stateCounter, 1, depth + 1)
                     ELSE g3
            ELSE LET g3 == addNodeToTypeLists(
                               [g2 EXCEPT !.nodes[child].type = "ARRAY"], child)
                     g4 == injectArrayNode(g3, desc, fieldDesc, type, child)
                     arrChild == g4.stateCounter
                 IN  IF type = "OUTSIDE_OBJECT"
                     THEN LET g5 == injectObjectNode(g4, desc, fieldDesc, arrChild)
                          IN  parseMessageDescRec(g5, schema, fieldDesc.msg,
                                                  g5.stateCounter, 1, depth + 1)
                     ELSE g4
    IN  parseMessageDescRec(done, schema, desc, node, f + 1, depth)

parseMessageDesc(schema) ==
    LET g0 == NewGraph
        g1 == [g0 EXCEPT !.nodes[1].name = ".",
                         !.nodes[1].type = "INSIDE_OBJECT",
                         !.nodes[1].desc = schema.root]
    IN  parseMessageDescRec(addNodeToTypeLists(g1, 1), schema, schema.root, 1, 1, 1)

Graphs == [s \in SchemaIds |-> parseMessageDesc(Schemas[s])]

(***************************************************************************)
(* The Printer: the case tables of the emitted handlers.  One record per   *)
(* `case`: label is the case label, location the value assigned to         *)
(* state.location (set: whether the case assigns it), cast the message     *)
(* type the stack top is cast to, verb and name the accessor called.       *)
(***************************************************************************)
\* std::hash<std::string>: a map from the unbounded key strings into size_t,
\* hence not injective; the table fixes it on the keys the model uses, with
\* "n~", "d~" and "p~" standing for strings whose hash is that of "n", "d", "p"
KeyHash ==
    ("flag" :> 11 @@ "n" :> 12 @@ "bits" :> 13 @@ "d" :> 14 @@ "ss" :> 15
     @@ "k" :> 16 @@ "p" :> 17 @@ "ps" :> 18 @@ "x" :> 19 @@ "ls" :> 20
     @@ "l" :> 21 @@ "v" :> 22 @@ "zz" :> 23
     @@ "n~" :> 12 @@ "d~" :> 14 @@ "p~" :> 17)

Hash(key) == KeyHash[key]

\* the sequence printed by `for (node : nodes) print...StateImpl(node)`
RECURSIVE PrintCases(_, _, _)
PrintCases(Op(_, _), g, nodes) ==
    IF nodes = <<>> THEN <<>>
    ELSE << Op(g, Head(nodes)) >> \o PrintCases(Op, g, Tail(nodes))

printNullStateImpl(g, n) ==
    LET node == g.nodes[n]
    IN  [label |-> node.state, cast |-> node.desc, verb |-> "clear",
         name |-> node.name, ftype |-> node.field.type,
         set |-> TRUE, location |-> g.nodes[node.parent].state]

printNullImpl(g) == PrintCases(printNullStateImpl, g, g.null_nodes)

\* mutant: an array element too assigns the parent state to location
printPodStateImpl_leaves(g, n) ==
    LET node == g.nodes[n]
    IN  [label |-> node.state, cast |-> node.desc,
         verb |-> IF is_repeated(node.field) THEN "add" ELSE "set",
         name |-> node.name, ftype |-> node.field.type,
         set |-> TRUE,
         location |-> g.nodes[node.parent].state]

printPodStateImpl(g, n) ==
    LET node == g.nodes[n]
    IN  [label |-> node.state, cast |-> node.desc,
         verb |-> IF is_repeated(node.field) THEN "add" ELSE "set",
         name |-> node.name, ftype |-> node.field.type,
         set |-> ~is_repeated(node.field),
         location |-> g.nodes[node.parent].state]

printPodImpl(g, nodes) == PrintCases(printPodStateImpl, g, nodes)

printStringStateImpl(g, n) ==
    LET node == g.nodes[n]
    IN  [label |-> node.state, cast |-> node.desc,
         verb |-> IF is_repeated(node.field) THEN "add" ELSE "mutable",
         name |-> node.name, ftype |-> node.field.type,
         set |-> ~is_repeated(node.field),
         location |-> g.nodes[node.parent].state]

printStringImpl(g) == PrintCases(printStringStateImpl, g, g.string_nodes)

\* mutant: always the mutable accessor, never the adder
printMapStartStateImpl_mutable(g, n) ==
    LET node == g.nodes[n]
    IN  IF node.parent = 0
        THEN [label |-> 0, cast |-> "", verb |-> "req", name |-> "",
              ftype |-> "none", set |-> TRUE, location |-> node.state]
        ELSE [label |-> g.nodes[node.parent].state, cast |-> node.desc,
              verb |-> "mutable",
              name |-> node.name, ftype |-> node.field.type,
              set |-> TRUE, location |-> node.state]

printMapStartStateImpl(g, n) ==
    LET node == g.nodes[n]
    IN  IF node.parent = 0
        THEN [label |-> 0, cast |-> "", verb |-> "req", name |-> "",
              ftype |-> "none", set |-> TRUE, location |-> node.state]
        ELSE [label |-> g.nodes[node.parent].state, cast |-> node.desc,
              verb |-> IF is_repeated(node.field) THEN "add" ELSE "mutable",
              name |-> node.name, ftype |-> node.field.type,
              set |-> TRUE, location |-> node.state]

printMapStartImpl(g) == PrintCases(printMapStartStateImpl, g, g.object_nodes)

\* one inner `case <hash>:` per child
printMapKeyChild(g, c) ==
    [hash |-> Hash(g.nodes[c].name), location |-> g.nodes[c].state]

printMapKeyStateImpl(g, n) ==
    LET node == g.nodes[n]
    IN  [label |-> node.state,
         keys |-> PrintCases(printMapKeyChild, g, node.children)]

printMapKeyImpl(g) == PrintCases(printMapKeyStateImpl, g, g.object_nodes)

\* mutant: looks for the Array three levels up instead of two
printMapEndStateImpl_depth3(g, n) ==
    LET node == g.nodes[n]
        up2 == g.nodes[node.parent].parent
    IN  IF node.parent = 0 \/ up2 = 0
        THEN [label |-> node.state, location |-> 0, empty |-> TRUE]
        ELSE IF g.nodes[up2].parent # 0
                /\ g.nodes[g.nodes[up2].parent].type = "ARRAY"
        THEN [label |-> node.state,
              location |-> g.nodes[node.parent].state, empty |-> FALSE]
        ELSE [label |-> node.state,
              location |-> g.nodes[up2].state, empty |-> FALSE]

\* mutant: returns to the parent (key) state whatever the grandparent is
printMapEndStateImpl_parent(g, n) ==
    LET node == g.nodes[n]
    IN  IF node.parent = 0 \/ g.nodes[node.parent].parent = 0
        THEN [label |-> node.state, location |-> 0, empty |-> TRUE]
        ELSE [label |-> node.state,
              location |-> g.nodes[node.parent].state, empty |-> FALSE]

\* empty: the case ends with assert(state.msgStack.empty())
printMapEndStateImpl(g, n) ==
    LET node == g.nodes[n]
    IN  IF node.parent = 0 \/ g.nodes[node.parent].parent = 0
        THEN [label |-> node.state, location |-> 0, empty |-> TRUE]
        ELSE IF g.nodes[g.nodes[node.parent].parent].type = "ARRAY"
        THEN [label |-> node.state,
              location |-> g.nodes[node.parent].state, empty |-> FALSE]
        ELSE [label |-> node.state,
              location |-> g.nodes[g.nodes[node.parent].parent].state,
              empty |-> FALSE]

printMapEndImpl(g) == PrintCases(printMapEndStateImpl, g, g.object_nodes)

\* mutant: start_array stays at the Array state
printArrayStartStateImpl_stay(g, n) ==
    LET node == g.nodes[n]
    IN  [label |-> node.state, location |-> node.state]

printArrayStartStateImpl(g, n) ==
    LET node == g.nodes[n]
    IN  [label |-> node.state, location |-> g.nodes[node.children[1]].state]

printArrayStartImpl(g) == PrintCases(printArrayStartStateImpl, g, g.array_nodes)

\* mutant: the case is labelled with the Array state, not the element state
printArrayEndStateImpl_arrayLabel(g, n) ==
    LET node == g.nodes[n]
    IN  [label |-> node.state, location |-> g.nodes[node.parent].state]

printArrayEndStateImpl(g, n) ==
    LET node == g.nodes[n]
    IN  [label |-> g.nodes[node.children[1]].state,
         location |-> g.nodes[node.parent].state]

printArrayEndImpl(g) == PrintCases(printArrayEndStateImpl, g, g.array_nodes)

\* the emitted source of one graph: a case table per handler
printSourceImpl(g) ==
    [null |-> printNullImpl(g),
     boolean |-> printPodImpl(g, g.bool_nodes),
     integer |-> printPodImpl(g, g.long_nodes),
     double |-> printPodImpl(g, g.double_nodes),
     string |-> printStringImpl(g),
     start_map |-> printMapStartImpl(g),
     map_key |-> printMapKeyImpl(g),
     end_map |-> printMapEndImpl(g),
     start_array |-> printArrayStartImpl(g),
     end_array |-> printArrayEndImpl(g)]

Emitted == [s \in SchemaIds |-> printSourceImpl(Graphs[s])]

(***************************************************************************)
(* The message object model the emitted code calls (protobuf's generated   *)
(* classes).  A message instance is [type, val]; val maps each field name  *)
(* to a sequence: empty when the field is unset, one value when a singular *)
(* field is set, the elements of a repeated field.  A message-typed field  *)
(* holds the heap indices of its sub-messages.  The heap is the storage of *)
(* state.req: index 1 is the target message itself.                        *)
(***************************************************************************)
FieldsOf(s, desc) == Schemas[s].msgs[desc]

FieldNamed(s, desc, name) ==
    LET fs == FieldsOf(s, desc)
    IN  fs[CHOOSE i \in 1 .. Len(fs) : fs[i].name = name]

NewMessage(s, desc) ==
    [type |-> desc,
     val |-> [n \in {FieldsOf(s, desc)[i].name : i \in 1 .. Len(FieldsOf(s, desc))}
                |-> <<>>]]

\* req.Clear() / a default-constructed target message
ClearedReq(s) == << NewMessage(s, Schemas[s].root) >>

RECURSIVE IsInitialized(_, _, _)
\* Message::IsInitialized: every required field set, in every sub-message too
IsInitialized(s, hp, id) ==
    LET fs == FieldsOf(s, hp[id].type)
    IN  \A i \in 1 .. Len(fs) :
            /\ fs[i].label = "required" => Len(hp[id].val[fs[i].name]) = 1
            /\ fs[i].type = "TYPE_MESSAGE" =>
                   \A j \in 1 .. Len(hp[id].val[fs[i].name]) :
                       IsInitialized(s, hp, hp[id].val[fs[i].name][j])

\* mutant: a bool field keeps only the argument 1 as true
ConvertPod_one(ftype, ev, v) ==
    CASE ftype = "TYPE_BOOL" -> v = 1
      [] ftype \in {"TYPE_FLOAT", "TYPE_DOUBLE"} ->
            IF ev = "integer" THEN 2 * v ELSE v
      [] OTHER -> v

\* the implicit conversion of the handler's argument (int, long long or
\* double) to the parameter type of set_<field> / add_<field>; doubles are
\* kept in halves (3 is 1.5), so the integer v is the double 2 * v
ConvertPod(ftype, ev, v) ==
    CASE ftype = "TYPE_BOOL" -> v # 0
      [] ftype \in {"TYPE_FLOAT", "TYPE_DOUBLE"} ->
            IF ev = "integer" THEN 2 * v ELSE v
      [] OTHER -> v

(***************************************************************************)
(* The emitted parser state (struct <t>_parser_state_s) as a record st =   *)
(* [location, msgStack, heap, status], and the emitted handlers as         *)
(* operators from st to the set of states the handler can leave behind.    *)
(* status: "running"; "exit" (the default case: diagnostic, exit(1));      *)
(* "abort" (a failed CheckInitialized or assert); "segv" and "corrupt"     *)
(* (the outcomes of dereferencing the back() of an empty msgStack or of a  *)
(* cast to the wrong message type: a crash, or a wild write).              *)
(***************************************************************************)
Back(stack) == stack[Len(stack)]

PopBack(stack) == SubSeq(stack, 1, Len(stack) - 1)

\* the case that `switch (state.location)` selects; <<>>: the default case
SwitchCase(cases, loc) == SelectSeq(cases, LAMBDA c : c.label = loc)

DefaultCase(st) == { [st EXCEPT !.status = "exit"] }

\* whether static_cast<cast *>(state.msgStack.back()) is a valid pointer
TopIs(st, cast) ==
    /\ st.msgStack # <<>>
    /\ st.heap[Back(st.msgStack)].type = cast

WildAccess(st) ==
    { [st EXCEPT !.status = "segv"], [st EXCEPT !.status = "corrupt"] }

SetLocation(st, c) == IF c.set THEN [st EXCEPT !.location = c.location] ELSE st

\* the body of one emitted `case` of parse_null
NullCase(st, c) ==
    IF ~TopIs(st, c.cast) THEN WildAccess(st)
    ELSE { SetLocation([st EXCEPT !.heap[Back(st.msgStack)].val[c.name] = <<>>],
                       c) }

NullSwitch(st, sel) ==
    IF sel = <<>> THEN DefaultCase(st) ELSE NullCase(st, sel[1])

parse_null(s, st) == NullSwitch(st, SwitchCase(Emitted[s].null, st.location))

\* the body of one emitted `case` of parse_boolean, parse_integer, parse_double
PodCase(st, c, x) ==
    IF ~TopIs(st, c.cast) THEN WildAccess(st)
    ELSE { SetLocation([st EXCEPT !.heap[Back(st.msgStack)].val[c.name] =
                            IF c.verb = "add" THEN Append(@, x) ELSE << x >>],
                       c) }

PodSwitch(st, sel, ev, v) ==
    IF sel = <<>> THEN DefaultCase(st)
    ELSE PodCase(st, sel[1], ConvertPod(sel[1].ftype, ev, v))

\* parse_boolean, parse_integer, parse_double: ev names the handler
parse_pod(s, st, ev, v) ==
    PodSwitch(st, SwitchCase(Emitted[s][ev], st.location), ev, v)

\* the body of one emitted `case` of parse_string, with the copy into target
StringCase(st, c, v) ==
    IF ~TopIs(st, c.cast) THEN WildAccess(st)
    ELSE { SetLocation([st EXCEPT !.heap[Back(st.msgStack)].val[c.name] =
                            IF c.verb = "add" THEN Append(@, v) ELSE << v >>],
                       c) }

StringSwitch(st, sel, v) ==
    IF sel = <<>> THEN DefaultCase(st) ELSE StringCase(st, sel[1], v)

parse_string(s, st, v) ==
    StringSwitch(st, SwitchCase(Emitted[s].string, st.location), v)

\* mutable_<name>() or add_<name>() on message top, whose field holds cur and
\* whose sub-messages have type sub: the pointer returned and the heap after
SubObject(hp, top, cur, sub, c) ==
    IF c.verb = "mutable" /\ cur # <<>>
    THEN [ptr |-> cur[1], heap |-> hp]
    ELSE [ptr |-> Len(hp) + 1,
          heap |-> Append([hp EXCEPT ![top].val[c.name] =
                               IF c.verb = "add" THEN Append(@, Len(hp) + 1)
                               ELSE << Len(hp) + 1 >>],
                          sub)]

PushSubObject(st, so) ==
    { [st EXCEPT !.heap = so.heap, !.msgStack = Append(@, so.ptr)] }

\* the body of one emitted `case` of parse_start_map
MapStartCase(s, st, c) ==
    IF c.verb = "req"
    THEN IF st.msgStack # <<>>
         THEN { [st EXCEPT !.location = c.location, !.status = "abort"] }
         ELSE { [st EXCEPT !.location = c.location, !.msgStack = << st.req >>] }
    ELSE IF ~TopIs(st, c.cast)
         THEN WildAccess([st EXCEPT !.location = c.location])
         ELSE PushSubObject(
                  [st EXCEPT !.location = c.location],
                  SubObject(st.heap, Back(st.msgStack),
                            st.heap[Back(st.msgStack)].val[c.name],
                            NewMessage(s, FieldNamed(s, c.cast, c.name).msg), c))

MapStartSwitch(s, st, sel) ==
    IF sel = <<>> THEN DefaultCase(st) ELSE MapStartCase(s, st, sel[1])

parse_start_map(s, st) ==
    MapStartSwitch(s, st, SwitchCase(Emitted[s].start_map, st.location))

\* the inner `switch (hash)` of one emitted `case` of parse_map_key
MapKeyCase(st, inner) ==
    IF inner = <<>> THEN DefaultCase(st)
    ELSE { [st EXCEPT !.location = inner[1].location] }

MapKeySwitch(st, sel, hash) ==
    IF sel = <<>> THEN DefaultCase(st)
    ELSE MapKeyCase(st, SelectSeq(sel[1].keys, LAMBDA c : c.hash = hash))

parse_map_key(s, st, key) ==
    MapKeySwitch(st, SwitchCase(Emitted[s].map_key, st.location), Hash(key))

\* mutant: the case without msgStack.pop_back()
MapEndCase_noPop(st, c) ==
    IF st.msgStack = <<>> THEN WildAccess([st EXCEPT !.location = c.location])
    ELSE { [st EXCEPT !.location = c.location] }

\* the body of one emitted `case` of parse_end_map
MapEndCase(st, c) ==
    IF st.msgStack = <<>> THEN WildAccess([st EXCEPT !.location = c.location])
    ELSE IF c.empty /\ Len(st.msgStack) # 1
    THEN { [st EXCEPT !.location = c.location, !.msgStack = PopBack(@),
                      !.status = "abort"] }
    ELSE { [st EXCEPT !.location = c.location, !.msgStack = PopBack(@)] }

MapEndSwitch(st, sel) ==
    IF sel = <<>> THEN DefaultCase(st) ELSE MapEndCase(st, sel[1])

\* the value <t>_parser_init gives state->config.checkInitialized
checkInitialized == TRUE

\* the check parse_end_map makes before its switch leaves sw behind;
\* CheckInitialized on the back() of an empty msgStack reads through a wild
\* pointer: a crash, or whatever the bytes found there make of the check
MapEndChecked(s, st, sw) ==
    IF ~st.config.checkInitialized THEN sw
    ELSE IF st.msgStack = <<>>
    THEN { [st EXCEPT !.status = "segv"], [st EXCEPT !.status = "abort"] }
         \cup sw
    ELSE IF ~IsInitialized(s, st.heap, Back(st.msgStack))
    THEN { [st EXCEPT !.status = "abort"] }
    ELSE sw

parse_end_map(s, st) ==
    MapEndChecked(s, st,
                  MapEndSwitch(st, SwitchCase(Emitted[s].end_map, st.location)))

ArraySwitch(st, sel) ==
    IF sel = <<>> THEN DefaultCase(st)
    ELSE { [st EXCEPT !.location = sel[1].location] }

parse_start_array(s, st) ==
    ArraySwitch(st, SwitchCase(Emitted[s].start_array, st.location))

parse_end_array(s, st) ==
    ArraySwitch(st, SwitchCase(Emitted[s].end_array, st.location))

\* mutant: reset forgets msgStack.clear()
reset_keepsStack(s, st) ==
    [st EXCEPT !.location = 0, !.heap = ClearedReq(s)]

\* <t>_parser_state_s::reset
reset(s, st) ==
    [st EXCEPT !.location = 0, !.heap = ClearedReq(s), !.msgStack = <<>>]

\* <t>_parser_reset on a state whose handle is set: the state it leaves and
\* the value it returns
parser_reset(s, st) == [st |-> reset(s, st), rc |-> 0]

\* <t>_parser_init on a default-constructed message: req is the message the
\* state is bound to (the first object of the heap)
parser_init(s) ==
    [location |-> 0, msgStack |-> <<>>, heap |-> ClearedReq(s),
     status |-> "running",
     config |-> [checkInitialized |-> checkInitialized], req |-> 1]

(***************************************************************************)
(* The tokenizer (yajl) behind <t>_parser_on_chunk: it delivers only the   *)
(* events of well-nested JSON.  yajl is its stack of contexts: "start"     *)
(* (no value yet), "complete" (the top-level value is closed), "map" (a    *)
(* key or the closing brace comes next), "mapval" (the value of a key      *)
(* comes next), "array" (an element or the closing bracket comes next).    *)
(***************************************************************************)
ValueEvents ==
    {"null", "boolean", "integer", "double", "string", "start_map", "start_array"}

YajlAllows(y, ev) ==
    CASE ev \in ValueEvents -> Back(y) \in {"start", "mapval", "array"}
      [] ev \in {"map_key", "end_map"} -> Back(y) = "map"
      [] ev = "end_array" -> Back(y) = "array"
      [] OTHER -> FALSE

\* the context once a value has begun in it
AfterValue(ctx) ==
    CASE ctx = "start" -> "complete"
      [] ctx = "mapval" -> "map"
      [] OTHER -> ctx

YajlNext(y, ev) ==
    LET seen == [y EXCEPT ![Len(y)] = AfterValue(@)]
    IN  CASE ev = "start_map" -> Append(seen, "map")
          [] ev = "start_array" -> Append(seen, "array")
          [] ev \in ValueEvents -> seen
          [] ev = "map_key" -> [y EXCEPT ![Len(y)] = "mapval"]
          [] OTHER -> PopBack(y)

\* the arguments the model's documents carry
BoolArgs == {0, 1}

IntArgs == {0, 1, -3}

DoubleArgs == {3}

StringArgs == {"s"}

UnknownKeys == {"zz", "n~", "d~", "p~"}

\* the keys a document for schema s may carry: its field names, a key that no
\* message declares and the keys whose hash is that of a field name
KeyArgs(s) ==
    LET declared == UNION { {FieldsOf(s, m)[i].name : i \in 1 .. Len(FieldsOf(s, m))}
                            : m \in DOMAIN Schemas[s].msgs }
    IN  declared \cup {"zz"}
        \cup {k \in UnknownKeys : \E d \in declared : Hash(d) = Hash(k) /\ d # k}

(***************************************************************************)
(* JSON that is legal for the schema, told from the schema alone: expect   *)
(* is the stack of schema positions of a document that has been legal so   *)
(* far ([k, m, f]: inside message m, at the value of field f, inside the   *)
(* array of field f; <<>> when the document is closed), and Illegal once   *)
(* it is not.                                                              *)
(***************************************************************************)
RootField(s) == Field(".", "TYPE_MESSAGE", "required", Schemas[s].root)

Illegal == << [k |-> "illegal", m |-> "", f |-> NoField] >>

ExpectStart(s) == << [k |-> "val", m |-> "", f |-> RootField(s)] >>

ScalarLegal(f, ev) ==
    CASE f.type = "TYPE_BOOL" -> ev \in {"boolean", "integer"}
      [] f.type \in {"TYPE_FLOAT", "TYPE_DOUBLE"} -> ev \in {"double", "integer"}
      [] f.type = "TYPE_STRING" -> ev = "string"
      [] f.type = "TYPE_MESSAGE" -> FALSE
      [] OTHER -> ev = "integer"

Declares(s, m, key) ==
    \E i \in 1 .. Len(FieldsOf(s, m)) : FieldsOf(s, m)[i].name = key

\* the positions after event ev; Illegal when ev is not legal here
ExpectNext(s, e, ev, arg) ==
    IF e = <<>> THEN Illegal
    ELSE
    LET top == Back(e)
        rest == PopBack(e)
        inMsg == [k |-> "msg", m |-> top.f.msg, f |-> NoField]
    IN  CASE top.k = "msg" /\ ev = "map_key" /\ Declares(s, top.m, arg) ->
                Append(e, [k |-> "val", m |-> top.m,
                           f |-> FieldNamed(s, top.m, arg)])
          [] top.k = "msg" /\ ev = "end_map" -> rest
          [] top.k = "val" /\ is_repeated(top.f) /\ ev = "start_array" ->
                Append(rest, [top EXCEPT !.k = "arr"])
          [] top.k = "val" /\ ~is_repeated(top.f) /\ ScalarLegal(top.f, ev) -> rest
          [] top.k = "val" /\ ~is_repeated(top.f) /\ ev = "null"
               /\ is_optional(top.f) -> rest
          [] top.k = "val" /\ ~is_repeated(top.f) /\ ev = "start_map"
               /\ top.f.type = "TYPE_MESSAGE" -> Append(rest, inMsg)
          [] top.k = "arr" /\ ScalarLegal(top.f, ev) -> e
          [] top.k = "arr" /\ ev = "start_map" /\ top.f.type = "TYPE_MESSAGE" ->
                Append(e, inMsg)
          [] top.k = "arr" /\ ev = "end_array" -> rest
          [] OTHER -> Illegal

(***************************************************************************)
(* One parser state of the emitted parser for schema `schema`, from        *)
(* <t>_parser_init on: the tokenizer delivers events to the handlers, and  *)
(* the caller may reset.  last is the event handled last with the state it *)
(* found (pre); fresh tells that no reset has happened after an event.     *)
(***************************************************************************)
VARIABLES schema, location, msgStack, heap, status, yajl, nEvents, nResets,
          expect, fresh, last, config, req

\* the generator process (GenSpec), a caller of the chunk API (ApiSpec), a
\* call of <t>_parser_easy (EasySpec) and a pair of parser states
\* (PairSpec): each idle in the specifications that are not about it
VARIABLES gen, api, easy, pair

vars == << schema, location, msgStack, heap, status, yajl, nEvents, nResets,
           expect, fresh, last, config, req, gen, api, easy, pair >>

\* the variables of one parser state
parserVars == << schema, location, msgStack, heap, status, yajl, nEvents,
                 nResets, expect, fresh, last, config, req >>

\* what a variable holds in the specifications that are not about it
Idle == [pc |-> "idle"]

\* no generator process is part of the run
GenIdle == Idle

\* the variables a run of one parser state leaves alone
notParser == << gen, api, easy, pair >>

\* the variables a run of the generator leaves alone
notGen == << parserVars, api, easy, pair >>

St == [location |-> location, msgStack |-> msgStack, heap |-> heap,
       status |-> status, config |-> config, req |-> req]

Init ==
    /\ schema \in SchemaIds
    /\ location = parser_init(schema).location
    /\ msgStack = parser_init(schema).msgStack
    /\ heap = parser_init(schema).heap
    /\ status = parser_init(schema).status
    /\ yajl = << "start" >>
    /\ nEvents = 0
    /\ nResets = 0
    /\ expect = ExpectStart(schema)
    /\ fresh = TRUE
    /\ config = parser_init(schema).config
    /\ req = parser_init(schema).req
    /\ last = [ev |-> "init", arg |-> 0, pre |-> parser_init(schema),
               handle |-> << "start" >>, rc |-> 0]
    /\ gen = GenIdle
    /\ api = Idle
    /\ easy = Idle
    /\ pair = Idle

\* yajl calls the handler of ev, which leaves one of the states in results
Deliver(ev, arg, results) ==
    /\ status = "running"
    /\ nEvents < MaxEvents
    /\ YajlAllows(yajl, ev)
    /\ \E r \in results :
          /\ location' = r.location
          /\ msgStack' = r.msgStack
          /\ heap' = r.heap
          /\ status' = r.status
          /\ config' = r.config
          /\ req' = r.req
    /\ yajl' = YajlNext(yajl, ev)
    /\ nEvents' = nEvents + 1
    /\ expect' = ExpectNext(schema, expect, ev, arg)
    /\ last' = [ev |-> ev, arg |-> arg, pre |-> St, handle |-> yajl, rc |-> 1]
    /\ UNCHANGED << schema, nResets, fresh >>
    /\ UNCHANGED notParser

Null == Deliver("null", 0, parse_null(schema, St))

Boolean == \E v \in BoolArgs : Deliver("boolean", v, parse_pod(schema, St, "boolean", v))

Integer == \E v \in IntArgs : Deliver("integer", v, parse_pod(schema, St, "integer", v))

Double == \E v \in DoubleArgs : Deliver("double", v, parse_pod(schema, St, "double", v))

String == \E v \in StringArgs : Deliver("string", v, parse_string(schema, St, v))

StartMap == Deliver("start_map", 0, parse_start_map(schema, St))

MapKey == \E k \in KeyArgs(schema) : Deliver("map_key", k, parse_map_key(schema, St, k))

EndMap == Deliver("end_map", 0, parse_end_map(schema, St))

StartArray == Deliver("start_array", 0, parse_start_array(schema, St))

EndArray == Deliver("end_array", 0, parse_end_array(schema, St))

\* <t>_parser_reset: the tokenizer handle is left as it is
Reset ==
    /\ status = "running"
    /\ nResets < MaxResets
    /\ location' = parser_reset(schema, St).st.location
    /\ msgStack' = parser_reset(schema, St).st.msgStack
    /\ heap' = parser_reset(schema, St).st.heap
    /\ config' = parser_reset(schema, St).st.config
    /\ req' = parser_reset(schema, St).st.req
    /\ nResets' = nResets + 1
    /\ fresh' = (fresh /\ nEvents = 0)
    /\ last' = [ev |-> "reset", arg |-> 0, pre |-> St, handle |-> yajl,
                rc |-> parser_reset(schema, St).rc]
    /\ UNCHANGED << schema, status, yajl, nEvents, expect >>
    /\ UNCHANGED notParser

Next ==
    \/ Null
    \/ Boolean
    \/ Integer
    \/ Double
    \/ String
    \/ StartMap
    \/ MapKey
    \/ EndMap
    \/ StartArray
    \/ EndArray
    \/ Reset

Spec == Init /\ [][Next]_vars

(***************************************************************************)
(* The generator process: main, the Graph constructor, parseMessageDesc    *)
(* and Printer::print, one step per call that can fail.  Its inputs are    *)
(* argc, the schema the .proto file holds and what the environment answers *)
(* (env): whether the file opens, parses, is accepted by the descriptor    *)
(* pool and holds the message named, and whether the two output files can  *)
(* be opened for writing.  exit is how the process ends: "exit" (return    *)
(* from main or exit(1), with code the exit status), "terminate" (an       *)
(* exception nobody catches: std::terminate, abort) or "segv" (fprintf to  *)
(* the null FILE * of a failed fopen); the last two are deaths by signal,  *)
(* with no exit status of the program's (code -1).                         *)
(***************************************************************************)
\* a supported schema whose nested message Big declares a uint64 field
SchemaWide ==
    [root |-> "Wide",
     msgs |-> ("Wide" :> << Field("n", "TYPE_INT64", "optional", ""),
                            Field("p", "TYPE_MESSAGE", "repeated", "Big") >>
            @@ "Big" :> << Field("flag", "TYPE_BOOL", "optional", ""),
                           Field("x", "TYPE_UINT64", "required", "") >>)]

\* a root message with a bytes field
SchemaBlob ==
    [root |-> "Blob",
     msgs |-> ("Blob" :> << Field("d", "TYPE_BYTES", "optional", ""),
                            Field("k", "TYPE_SINT32", "optional", "") >>)]

\* a nested message with a group field (a type the switch does not list)
SchemaGroup ==
    [root |-> "Outer",
     msgs |-> ("Outer" :> << Field("l", "TYPE_MESSAGE", "optional", "Inner") >>
            @@ "Inner" :> << Field("v", "TYPE_GROUP", "optional", "") >>)]

\* two fields of one message whose names have the same hash
SchemaClash ==
    [root |-> "Clash",
     msgs |-> ("Clash" :> << Field("p", "TYPE_MESSAGE", "optional", "Pair") >>
            @@ "Pair" :> << Field("n", "TYPE_INT64", "optional", ""),
                            Field("x", "TYPE_FLOAT", "repeated", ""),
                            Field("n~", "TYPE_STRING", "optional", "") >>)]

\* the file declares a message with a bytes field that the root never reaches,
\* and the names n and n~ meet in different messages only
SchemaSpare ==
    [root |-> "Used",
     msgs |-> ("Used" :> << Field("n", "TYPE_FIXED32", "required", ""),
                            Field("l", "TYPE_MESSAGE", "optional", "Leaf") >>
            @@ "Leaf" :> << Field("n~", "TYPE_STRING", "optional", "") >>
            @@ "Spare" :> << Field("d", "TYPE_BYTES", "optional", "") >>)]

\* a message with a repeated field of its own type
SchemaTree ==
    [root |-> "Tree",
     msgs |-> ("Tree" :> << Field("v", "TYPE_INT64", "optional", ""),
                            Field("ls", "TYPE_MESSAGE", "repeated", "Tree") >>)]

\* two messages each with a field of the other's type
SchemaLoop ==
    [root |-> "Ping",
     msgs |-> ("Ping" :> << Field("p", "TYPE_MESSAGE", "optional", "Pong") >>
            @@ "Pong" :> << Field("flag", "TYPE_BOOL", "optional", ""),
                            Field("l", "TYPE_MESSAGE", "optional", "Ping") >>)]

GenSchemas ==
    << SchemaFlat, SchemaText, SchemaNest, SchemaWide, SchemaBlob, SchemaGroup,
       SchemaClash, SchemaSpare, SchemaTree, SchemaLoop >>

\* the values of argc the model starts main with
ArgCounts == {1, 3, 4, 5}

GenEnv ==
    [openable : BOOLEAN, parses : BOOLEAN, builds : BOOLEAN, found : BOOLEAN,
     header : BOOLEAN, source : BOOLEAN]

\* `throw std::runtime_error(what)`: nothing in main catches it
Throw(g, what) ==
    [g EXCEPT !.pc = "done", !.exit = "terminate", !.code = -1, !.error = what]

\* no parser state is part of the run
ParserIdle ==
    /\ schema = 1
    /\ location = 0
    /\ msgStack = <<>>
    /\ heap = <<>>
    /\ status = "idle"
    /\ yajl = <<>>
    /\ nEvents = 0
    /\ nResets = 0
    /\ expect = <<>>
    /\ fresh = TRUE
    /\ config = parser_init(1).config
    /\ req = parser_init(1).req
    /\ last = [ev |-> "none", arg |-> 0, pre |-> parser_init(1),
               handle |-> <<>>, rc |-> 0]

GenInit ==
    /\ ParserIdle
    /\ api = Idle
    /\ easy = Idle
    /\ pair = Idle
    /\ \E argc \in ArgCounts, s \in 1 .. Len(GenSchemas), env \in GenEnv :
           gen = [pc |-> "main", argc |-> argc, schema |-> s, env |-> env,
                  graph |-> NewGraph, files |-> {}, exit |-> "none",
                  code |-> -1, error |-> ""]

\* main: the check of argc
Main ==
    /\ gen.pc = "main"
    /\ gen' = IF gen.argc # 4
              THEN [gen EXCEPT !.pc = "done", !.exit = "exit", !.code = 1,
                               !.error = "usage"]
              ELSE [gen EXCEPT !.pc = "open"]
    /\ UNCHANGED notGen

\* Graph::Graph: open(fname, O_RDONLY)
OpenProto ==
    /\ gen.pc = "open"
    /\ gen' = IF ~gen.env.openable
              THEN Throw(gen, "Unable to open proto file")
              ELSE [gen EXCEPT !.pc = "parse"]
    /\ UNCHANGED notGen

\* Graph::Graph: parser.Parse(&tokenizer, &protoDesc)
ParseProto ==
    /\ gen.pc = "parse"
    /\ gen' = IF ~gen.env.parses
              THEN Throw(gen, "Unable to parse proto file")
              ELSE [gen EXCEPT !.pc = "build"]
    /\ UNCHANGED notGen

\* Graph::Graph: pool.BuildFile(protoDesc)
BuildFile ==
    /\ gen.pc = "build"
    /\ gen' = IF ~gen.env.builds
              THEN Throw(gen, "Unable to load proto file")
              ELSE [gen EXCEPT !.pc = "find"]
    /\ UNCHANGED notGen

\* Graph::Graph: pool.FindMessageTypeByName(msgName)
FindMessage ==
    /\ gen.pc = "find"
    /\ gen' = IF ~gen.env.found
              THEN Throw(gen, "Unable to find message type")
              ELSE [gen EXCEPT !.pc = "graph"]
    /\ UNCHANGED notGen

\* the graph parseMessageDesc leaves; on a throw of getNodeTypeForProtoType
\* the process ends, and so it does (by signal) when the recursion has used
\* up the stack
GraphBuilt(g, graph) ==
    IF graph.failed
    THEN Throw([g EXCEPT !.graph = graph], "Unsupported protobuf type")
    ELSE IF graph.overflow
    THEN [g EXCEPT !.pc = "done", !.exit = "segv", !.code = -1, !.graph = graph]
    ELSE [g EXCEPT !.pc = "header", !.graph = graph]

\* main: graph.parseMessageDesc()
ParseMessageDesc ==
    /\ gen.pc = "graph"
    /\ gen' = GraphBuilt(gen, parseMessageDesc(GenSchemas[gen.schema]))
    /\ UNCHANGED notGen

\* fopen(name, "w") followed by fprintf and fclose on its result, unchecked
PrintFile(g, opened, name, pc) ==
    IF ~opened
    THEN [g EXCEPT !.pc = "done", !.exit = "segv", !.code = -1]
    ELSE [g EXCEPT !.pc = pc, !.files = @ \cup {name}]

\* Printer::print: the header file
PrintHeader ==
    /\ gen.pc = "header"
    /\ gen' = PrintFile(gen, gen.env.header, "header", "source")
    /\ UNCHANGED notGen

\* Printer::print: the source file
PrintSource ==
    /\ gen.pc = "source"
    /\ gen' = PrintFile(gen, gen.env.source, "source", "return")
    /\ UNCHANGED notGen

\* main: return 0
Return ==
    /\ gen.pc = "return"
    /\ gen' = [gen EXCEPT !.pc = "done", !.exit = "exit", !.code = 0]
    /\ UNCHANGED notGen

GenNext ==
    \/ Main
    \/ OpenProto
    \/ ParseProto
    \/ BuildFile
    \/ FindMessage
    \/ ParseMessageDesc
    \/ PrintHeader
    \/ PrintSource
    \/ Return

GenSpec == GenInit /\ [][GenNext]_vars

(***************************************************************************)
(* The chunk API: <t>_parser_on_chunk and <t>_parser_complete hand the     *)
(* bytes to the tokenizer.  A document is a sequence of tokens, a token    *)
(* [k, a, n] has kind k, value a and n bytes (separators and white space   *)
(* are left out), and a byte is a token with a position in it.  The handle *)
(* is h = [st, y, buf, evs]: the parser state the callbacks work on, the   *)
(* tokenizer's nesting y (<<"error">> once it has refused a token), the    *)
(* bytes buf of the token the lexer is in the middle of, and evs, the      *)
(* events delivered so far.  A number is known to be over only when the    *)
(* byte after it arrives or the parse is completed.                        *)
(***************************************************************************)
Tok(k, a, n) == [k |-> k, a |-> a, n |-> n]

\* the bytes of a document
RECURSIVE Bytes(_)
Bytes(doc) ==
    IF doc = <<>> THEN <<>>
    ELSE [i \in 1 .. Head(doc).n |-> [tok |-> Head(doc), i |-> i]]
         \o Bytes(Tail(doc))

IsNumber(tok) == tok.k \in {"int", "dbl"}

\* the callback the tokenizer makes for a token when its nesting is y
TokenEvent(y, tok) ==
    CASE tok.k = "{" -> "start_map"
      [] tok.k = "}" -> "end_map"
      [] tok.k = "[" -> "start_array"
      [] tok.k = "]" -> "end_array"
      [] tok.k = "null" -> "null"
      [] tok.k = "bool" -> "boolean"
      [] tok.k = "int" -> "integer"
      [] tok.k = "dbl" -> "double"
      [] tok.k = "str" -> IF Back(y) = "map" THEN "map_key" ELSE "string"
      [] OTHER -> "none"

\* the entry of the callback table that yajl calls for event ev
Callback(s, st, ev, a) ==
    CASE ev = "null" -> parse_null(s, st)
      [] ev \in {"boolean", "integer", "double"} -> parse_pod(s, st, ev, a)
      [] ev = "string" -> parse_string(s, st, a)
      [] ev = "start_map" -> parse_start_map(s, st)
      [] ev = "map_key" -> parse_map_key(s, st, a)
      [] ev = "end_map" -> parse_end_map(s, st)
      [] ev = "start_array" -> parse_start_array(s, st)
      [] OTHER -> parse_end_array(s, st)

HandleError(h) == [h EXCEPT !.y = << "error" >>, !.buf = <<>>]

\* the parser of the tokenizer takes a whole token
TakeToken(s, h, tok, ev) ==
    IF ~YajlAllows(h.y, ev)
    THEN { HandleError(h) }
    ELSE { [h EXCEPT !.st = r, !.y = YajlNext(h.y, ev), !.buf = <<>>,
                     !.evs = Append(@, << ev, tok.a >>)]
             : r \in Callback(s, h.st, ev, tok.a) }

Token(s, h, tok) == TakeToken(s, h, tok, TokenEvent(h.y, tok))

\* the handle takes no more bytes: an error is kept, and a handler that
\* ended the process has ended it
Stopped(h) == Back(h.y) = "error" \/ h.st.status # "running"

\* the buffered bytes are a number that may be over
NumberPending(h) ==
    h.buf # <<>> /\ IsNumber(h.buf[1].tok) /\ Len(h.buf) = h.buf[1].tok.n

\* the lexer starts a token with byte b
StartToken(s, h, b) ==
    IF Stopped(h) THEN { h }
    ELSE IF b.tok.n = 1 /\ ~IsNumber(b.tok)
    THEN Token(s, h, b.tok)
    ELSE { [h EXCEPT !.buf = << b >>] }

\* the lexer goes on with a token it has buffered the beginning of
ContinueToken(s, h, b) ==
    IF h.buf = <<>> \/ Back(h.buf).tok # b.tok \/ Back(h.buf).i + 1 # b.i
    THEN { HandleError(h) }
    ELSE IF b.i = b.tok.n /\ ~IsNumber(b.tok)
    THEN Token(s, h, b.tok)
    ELSE { [h EXCEPT !.buf = Append(@, b)] }

\* the lexer takes one byte
LexByte(s, h, b) ==
    IF Stopped(h) THEN { h }
    ELSE IF b.i > 1 THEN ContinueToken(s, h, b)
    ELSE IF NumberPending(h)
    THEN UNION { StartToken(s, x, b) : x \in Token(s, h, h.buf[1].tok) }
    ELSE IF h.buf # <<>> THEN { HandleError(h) }
    ELSE StartToken(s, h, b)

RECURSIVE yajl_parse(_, _, _)
\* yajl_parse on a chunk: the handles it can leave
yajl_parse(s, hs, chunk) ==
    IF chunk = <<>> THEN hs
    ELSE yajl_parse(s, UNION { LexByte(s, h, Head(chunk)) : h \in hs },
                    Tail(chunk))

\* yajl_complete_parse: a pending number is over; a token cut short or a
\* value still open is an error (yajl_allow_partial_values is off)
yajl_complete_parse(s, h) ==
    IF Stopped(h) THEN { h }
    ELSE LET flushed == IF NumberPending(h) THEN Token(s, h, h.buf[1].tok)
                        ELSE IF h.buf # <<>> THEN { HandleError(h) }
                        ELSE { h }
         IN  { IF Stopped(x) \/ x.y = << "complete" >> THEN x ELSE HandleError(x)
                 : x \in flushed }

\* the value `stat != yajl_status_ok` of the handle's last call
StatusCode(h) == IF Back(h.y) = "error" THEN 1 ELSE 0

\* <t>_parser_init: the handle yajl_alloc returns, bound to a new state
handle_init(s) ==
    [st |-> parser_init(s), y |-> << "start" >>, buf |-> <<>>, evs |-> <<>>]

\* mutant: each chunk is lexed on its own, a token begun in the chunk before
\* is forgotten
parser_on_chunk_forgets(s, h, chunk) ==
    { [h |-> x, rc |-> StatusCode(x)]
        : x \in yajl_parse(s, { [h EXCEPT !.buf = <<>>] }, chunk) }

\* <t>_parser_on_chunk: the handle it leaves and the value it returns
parser_on_chunk(s, h, chunk) ==
    { [h |-> x, rc |-> StatusCode(x)] : x \in yajl_parse(s, { h }, chunk) }

\* <t>_parser_complete
parser_complete(s, h) ==
    { [h |-> x, rc |-> StatusCode(x)] : x \in yajl_complete_parse(s, h) }

(***************************************************************************)
(* The documents of the model, by schema: legal ones, one that lacks a     *)
(* required field, one with an unknown key, one whose root is an array,    *)
(* one that is not JSON and one that is cut short.                         *)
(***************************************************************************)
LBrace == Tok("{", 0, 1)

RBrace == Tok("}", 0, 1)

LBracket == Tok("[", 0, 1)

RBracket == Tok("]", 0, 1)

StrTok(a) == Tok("str", a, 2)

IntTok(a) == Tok("int", a, IF a < 0 THEN 2 ELSE 1)

DocsFlat ==
    { << LBrace, StrTok("n"), IntTok(-3), RBrace >>,
      << LBrace, StrTok("bits"), LBracket, Tok("bool", 1, 2), IntTok(0), RBracket,
         StrTok("n"), IntTok(1), RBrace >>,
      << LBrace, RBrace >>,
      << LBrace, StrTok("zz"), IntTok(1), RBrace >>,
      << LBracket, IntTok(1), RBracket >>,
      << LBrace, StrTok("n"), RBrace >>,
      << LBrace, StrTok("n"), IntTok(1) >>,
      << LBrace, StrTok("flag"), Tok("bool", 0, 2), StrTok("n"), IntTok(0), RBrace >>,
      << LBrace, StrTok("n"), LBracket, IntTok(1), RBracket, RBrace >> }

DocsText ==
    { << LBrace, StrTok("k"), IntTok(1), StrTok("d"), Tok("dbl", 3, 2), RBrace >>,
      << LBrace, StrTok("ss"), LBracket, StrTok("s"), RBracket, StrTok("k"), IntTok(0),
         RBrace >>,
      << LBrace, StrTok("d"), Tok("null", 0, 2), StrTok("k"), StrTok("s"), RBrace >>,
      << LBrace, StrTok("k"), IntTok(1), RBrace, RBrace >>,
      << LBrace, StrTok("d"), IntTok(1), RBrace >>,
      << LBrace, StrTok("k"), IntTok(-2), StrTok("ss"), LBracket, RBracket, RBrace >>,
      << LBrace, StrTok("k"), LBrace, RBrace, RBrace >>,
      << LBrace, StrTok("k"), IntTok(1), RBracket >> }

DocsNest ==
    { << LBrace, StrTok("p"), LBrace, StrTok("x"), IntTok(1), RBrace, RBrace >>,
      << LBrace, StrTok("ps"), LBracket, LBrace, StrTok("x"), IntTok(0), RBrace,
         RBracket, RBrace >>,
      << LBrace, StrTok("p"), LBrace, RBrace, RBrace >>,
      << LBrace, StrTok("p"), Tok("bad", 0, 1), RBrace >>,
      << LBrace, StrTok("p"), LBrace, StrTok("x"), IntTok(1), StrTok("l"), LBrace,
         StrTok("v"), StrTok("s"), RBrace, RBrace, RBrace >>,
      << LBrace, StrTok("p"), LBracket, RBracket, RBrace >>,
      << LBrace, StrTok("p"), LBrace, StrTok("x"), IntTok(1), RBrace >>,
      << LBrace, StrTok("ps"), LBracket, RBracket, RBrace >> }

Docs == << DocsFlat, DocsText, DocsNest >>

(***************************************************************************)
(* A caller of the chunk API (ApiSpec): after init it feeds a document in  *)
(* chunks of any lengths (cuts), completes the parse, and may reset the    *)
(* state at any point and go on with another document.  rcs are the values *)
(* returned since init or the last reset; pc is "dead" once a handler has  *)
(* ended the process.                                                      *)
(***************************************************************************)
\* the variables a caller of the chunk API leaves alone
notApi == << parserVars, gen, easy, pair >>

ApiInit ==
    /\ ParserIdle
    /\ gen = Idle
    /\ easy = Idle
    /\ pair = Idle
    /\ \E s \in SchemaIds :
           \E doc \in Docs[s] :
               api = [pc |-> "feed", schema |-> s, doc |-> doc, pos |-> 0,
                      h |-> handle_init(s), rcs |-> <<>>, cuts |-> <<>>,
                      resets |-> 0]

\* what a call that returned r makes of the caller's record
Returned(a, r) ==
    [a EXCEPT !.h = r.h, !.rcs = Append(@, r.rc),
              !.pc = IF r.h.st.status # "running" THEN "dead" ELSE @]

\* <t>_parser_on_chunk with the next k bytes of the document
ApiOnChunk ==
    /\ api.pc = "feed"
    /\ Len(api.cuts) < MaxChunks
    /\ \E k \in 1 .. (Len(Bytes(api.doc)) - api.pos) :
           \E r \in parser_on_chunk(api.schema, api.h,
                                    SubSeq(Bytes(api.doc), api.pos + 1,
                                           api.pos + k)) :
               api' = Returned([api EXCEPT !.pos = @ + k,
                                           !.cuts = Append(@, k)], r)
    /\ UNCHANGED notApi

\* <t>_parser_complete
ApiComplete ==
    /\ api.pc = "feed"
    /\ \E r \in parser_complete(api.schema, api.h) :
           api' = Returned([api EXCEPT !.pc = "completed"], r)
    /\ UNCHANGED notApi

\* <t>_parser_reset, after which the caller parses document doc
ApiReset ==
    /\ api.pc \in {"feed", "completed"}
    /\ api.resets < MaxResets
    /\ \E doc \in Docs[api.schema] :
           api' = [api EXCEPT !.pc = "feed", !.doc = doc, !.pos = 0,
                              !.h.st = parser_reset(api.schema, api.h.st).st,
                              !.h.evs = <<>>,
                              !.rcs = <<>>, !.cuts = <<>>,
                              !.resets = @ + 1]
    /\ UNCHANGED notApi

ApiNext ==
    \/ ApiOnChunk
    \/ ApiComplete
    \/ ApiReset

ApiSpec == ApiInit /\ [][ApiNext]_vars

(***************************************************************************)
(* <t>_parser_easy (EasySpec), statement by statement.  h is the state and *)
(* handle init returns, allocated from init until free; rc is the value of *)
(* the last call; outcome says how easy was left: it "returned" msg, it    *)
(* "raised" std::runtime_error(err), or a handler ended the process        *)
(* ("exit", "abort", "segv", "corrupt").                                   *)
(***************************************************************************)
\* the variables easy leaves alone
notEasy == << parserVars, gen, api, pair >>

EasyInit ==
    /\ ParserIdle
    /\ gen = Idle
    /\ api = Idle
    /\ pair = Idle
    /\ \E s \in SchemaIds :
           \E doc \in Docs[s] :
               easy = [pc |-> "init", schema |-> s, doc |-> doc,
                       h |-> handle_init(s), allocated |-> FALSE, rc |-> 0,
                       err |-> "", outcome |-> "none"]

\* what a call that returned r makes of easy: the next statement is pc,
\* unless a handler has ended the process
EasyCalled(e, r, pc) ==
    IF r.h.st.status # "running"
    THEN [e EXCEPT !.h = r.h, !.pc = "done", !.outcome = r.h.st.status]
    ELSE [e EXCEPT !.h = r.h, !.rc = r.rc, !.pc = pc]

\* <t>_parser_state_t state = <t>_parser_init(msg);
EasyParserInit ==
    /\ easy.pc = "init"
    /\ easy' = [easy EXCEPT !.allocated = TRUE, !.pc = "on_chunk"]
    /\ UNCHANGED notEasy

\* int rc = <t>_parser_on_chunk(state, json.c_str(), json.size());
EasyOnChunk ==
    /\ easy.pc = "on_chunk"
    /\ \E r \in parser_on_chunk(easy.schema, easy.h, Bytes(easy.doc)) :
           easy' = EasyCalled(easy, r, "chunked")
    /\ UNCHANGED notEasy

\* rc = <t>_parser_complete(state);
EasyComplete ==
    /\ easy.pc = "chunked"
    /\ easy.rc = 0
    /\ \E r \in parser_complete(easy.schema, easy.h) :
           easy' = EasyCalled(easy, r, "completed")
    /\ UNCHANGED notEasy

\* if (rc != 0) { char *err = <t>_parser_get_error(state);
EasyGetError ==
    /\ easy.pc \in {"chunked", "completed"}
    /\ easy.rc # 0
    /\ easy' = [easy EXCEPT !.err = "yajl_get_error", !.pc = "throw"]
    /\ UNCHANGED notEasy

\* throw std::runtime_error(err); }
EasyThrow ==
    /\ easy.pc = "throw"
    /\ easy' = [easy EXCEPT !.pc = "done", !.outcome = "raised"]
    /\ UNCHANGED notEasy

\* <t>_parser_free(state);
EasyFree ==
    /\ easy.pc = "completed"
    /\ easy.rc = 0
    /\ easy' = [easy EXCEPT !.allocated = FALSE, !.pc = "return"]
    /\ UNCHANGED notEasy

\* return msg;
EasyReturn ==
    /\ easy.pc = "return"
    /\ easy' = [easy EXCEPT !.pc = "done", !.outcome = "returned"]
    /\ UNCHANGED notEasy

EasyNext ==
    \/ EasyParserInit
    \/ EasyOnChunk
    \/ EasyComplete
    \/ EasyGetError
    \/ EasyThrow
    \/ EasyFree
    \/ EasyReturn

EasySpec == EasyInit /\ [][EasyNext]_vars

(***************************************************************************)
(* Two parser states in one process (PairSpec).  Each instance i has its   *)
(* own document docs[i] and its own handle hd[i] = [y, buf, evs]; store    *)
(* holds the <t>_parser_state_s objects, and the callbacks of handle i     *)
(* work on the object its ctx points to.  The caller feeds each document   *)
(* token by token and completes it, the calls for the two instances        *)
(* interleaved in any order; dead says that a handler has ended the        *)
(* process, after which nothing runs.                                      *)
(***************************************************************************)
\* mutant: one state object for the whole process
ctx_shared(i) == 1

\* the state object that yajl_alloc binds handle i to: the one init made
\* for it with new
ctx(i) == i

Instances == {1, 2}

\* the variables the two instances leave alone
notPair == << parserVars, gen, api, easy >>

\* handle i together with the state its callbacks work on
HandleOf(p, i) ==
    [st |-> p.store[ctx(i)], y |-> p.hd[i].y, buf |-> p.hd[i].buf,
     evs |-> p.hd[i].evs]

\* what a call on handle i that returned r leaves
PairCalled(p, i, r) ==
    [p EXCEPT !.store[ctx(i)] = r.h.st,
              !.hd[i] = [y |-> r.h.y, buf |-> r.h.buf, evs |-> r.h.evs],
              !.dead = r.h.st.status # "running"]

PairInit ==
    /\ ParserIdle
    /\ gen = Idle
    /\ api = Idle
    /\ easy = Idle
    /\ \E s \in SchemaIds :
           \E d1 \in Docs[s] :
               \E d2 \in Docs[s] :
                   pair = [pc |-> "run", schema |-> s, docs |-> << d1, d2 >>,
                           store |-> << parser_init(s), parser_init(s) >>,
                           hd |-> << [y |-> << "start" >>, buf |-> <<>>, evs |-> <<>>],
                                     [y |-> << "start" >>, buf |-> <<>>, evs |-> <<>>] >>,
                           cuts |-> << <<>>, <<>> >>,
                           completed |-> << FALSE, FALSE >>,
                           dead |-> FALSE]

\* on_chunk on instance i with the bytes of the next token of its document
PairOnChunk(i) ==
    /\ ~pair.dead
    /\ ~pair.completed[i]
    /\ Len(pair.cuts[i]) < Len(pair.docs[i])
    /\ LET tok == pair.docs[i][Len(pair.cuts[i]) + 1]
       IN  \E r \in parser_on_chunk(pair.schema, HandleOf(pair, i), Bytes(<< tok >>)) :
               pair' = PairCalled([pair EXCEPT !.cuts[i] = Append(@, tok.n)], i, r)
    /\ UNCHANGED notPair

\* complete on instance i
PairComplete(i) ==
    /\ ~pair.dead
    /\ ~pair.completed[i]
    /\ Len(pair.cuts[i]) = Len(pair.docs[i])
    /\ \E r \in parser_complete(pair.schema, HandleOf(pair, i)) :
           pair' = PairCalled([pair EXCEPT !.completed[i] = TRUE], i, r)
    /\ UNCHANGED notPair

PairNext ==
    \/ \E i \in Instances : PairOnChunk(i)
    \/ \E i \in Instances : PairComplete(i)

PairSpec == PairInit /\ [][PairNext]_vars

(***************************************************************************)
(* The claims.  Each is stated on the state an event leaves behind: last   *)
(* names the event and the state the handler found.                        *)
(***************************************************************************)
Graph == Graphs[schema]

IsNode(loc) == loc \in 1 .. Len(Graph.nodes)

NodeAt(loc) == Graph.nodes[loc]

ParentOf(loc) == Graph.nodes[NodeAt(loc).parent]

\* an INSIDE_OBJECT node other than the root
IsNestedObject(loc) ==
    IsNode(loc) /\ NodeAt(loc).type = "INSIDE_OBJECT" /\ NodeAt(loc).parent # 0

Accepts(ev, loc) == SwitchCase(Emitted[schema][ev], loc) # <<>>

LegalSoFar == fresh /\ expect # Illegal

C2_ArrayTest ==
    \A n \in 1 .. Len(Graph.nodes) :
        IsNestedObject(n) =>
            ((Graph.nodes[ParentOf(n).parent].type = "ARRAY")
                <=> is_repeated(NodeAt(n).field))

\* C2: the end_map that closes an element of a repeated message field (its
\* handler returning) pops one stack entry and sets location to the array's element state, where
\* start_map and end_array are accepted; and in the graph the parser was
\* emitted from, the test `node.parent.parent is an Array` holds of exactly
\* the INSIDE_OBJECT nodes whose field is repeated.
C2_ElementEndMap ==
    /\ (/\ last.ev = "end_map"
        /\ IsNestedObject(last.pre.location)
        /\ is_repeated(NodeAt(last.pre.location).field)
        /\ status = "running")
       => /\ last.pre.msgStack # <<>>
          /\ msgStack = PopBack(last.pre.msgStack)
          /\ location = ParentOf(last.pre.location).state
          /\ NodeAt(location).type = "OUTSIDE_OBJECT"
          /\ ParentOf(location).type = "ARRAY"
          /\ location # ParentOf(location).state
          /\ Accepts("start_map", location)
          /\ Accepts("end_array", location)
    /\ last.ev = "init" => C2_ArrayTest

\* an element of a repeated message field nested in an element of another one
C2_Witness ==
    /\ last.ev = "end_map"
    /\ status = "running"
    /\ IsNestedObject(last.pre.location)
    /\ is_repeated(NodeAt(last.pre.location).field)
    /\ Len(last.pre.msgStack) = 3
    /\ is_repeated(NodeAt(ParentOf(location).parent).field)

\* C3: end_map at the INSIDE_OBJECT state of a non-repeated message field
\* (its handler returning) pops one stack entry and sets location to the state of the enclosing
\* INSIDE_OBJECT node; the stack top is then the enclosing message (the one
\* whose field holds the message just closed), and that state accepts
\* map_key and end_map.
C3_NestedEndMap ==
    (/\ last.ev = "end_map"
     /\ IsNestedObject(last.pre.location)
     /\ ~is_repeated(NodeAt(last.pre.location).field)
     /\ status = "running")
    => /\ last.pre.msgStack # <<>>
       /\ msgStack = PopBack(last.pre.msgStack)
       /\ location = Graph.nodes[ParentOf(last.pre.location).parent].state
       /\ NodeAt(location).type = "INSIDE_OBJECT"
       /\ msgStack # <<>>
       /\ heap[Back(msgStack)].val[NodeAt(last.pre.location).name]
              = << Back(last.pre.msgStack) >>
       /\ Accepts("map_key", location)
       /\ Accepts("end_map", location)

C3_Witness ==
    /\ last.ev = "end_map"
    /\ status = "running"
    /\ IsNestedObject(last.pre.location)
    /\ ~is_repeated(NodeAt(last.pre.location).field)
    /\ Len(msgStack) = 2
\* the INSIDE_OBJECT nodes that parse_start_map enters from location loc
EnteredFrom(loc) ==
    {n \in 1 .. Len(Graph.nodes) :
        /\ NodeAt(n).type = "INSIDE_OBJECT"
        /\ IF NodeAt(n).parent = 0 THEN loc = 0 ELSE loc = ParentOf(n).state}

Unchanged ==
    /\ location = last.pre.location
    /\ msgStack = last.pre.msgStack
    /\ heap = last.pre.heap

\* C4: start_map is accepted only where location is the state of the parent
\* of an INSIDE_OBJECT node (0 for the root).  For the root the stack was
\* empty and now holds the target message; for another node the stack has
\* grown by the sub-message of the former top: a new message appended to the
\* field when it is repeated, the field's message (made if it was unset)
\* otherwise.  location is the node's state.
C4_StartMap ==
    last.ev = "start_map" =>
        IF EnteredFrom(last.pre.location) = {}
        THEN status = "exit" /\ Unchanged
        ELSE LET n == CHOOSE x \in EnteredFrom(last.pre.location) : TRUE
                 f == NodeAt(n).name
                 top == Back(last.pre.msgStack)
                 old == last.pre.heap[top].val[f]
             IN  /\ Cardinality(EnteredFrom(last.pre.location)) = 1
                 /\ status = "running"
                 /\ location = NodeAt(n).state
                 /\ Len(msgStack) = Len(last.pre.msgStack) + 1
                 /\ PopBack(msgStack) = last.pre.msgStack
                 /\ IF NodeAt(n).parent = 0
                    THEN /\ last.pre.msgStack = <<>>
                         /\ Back(msgStack) = 1
                         /\ heap = last.pre.heap
                    ELSE /\ heap[Back(msgStack)].type = NodeAt(n).field.msg
                         /\ IF is_repeated(NodeAt(n).field)
                            THEN /\ Back(msgStack) = Len(last.pre.heap) + 1
                                 /\ heap[top].val[f] = Append(old, Back(msgStack))
                            ELSE /\ heap[top].val[f] = << Back(msgStack) >>
                                 /\ old # <<>> =>
                                        (old = << Back(msgStack) >>
                                            /\ heap = last.pre.heap)
                                 /\ old = <<>> =>
                                        Back(msgStack) = Len(last.pre.heap) + 1
                         /\ Back(msgStack) = Len(last.pre.heap) + 1 =>
                                heap = Append([last.pre.heap EXCEPT
                                                  ![top].val[f] = heap[top].val[f]],
                                              NewMessage(schema, NodeAt(n).field.msg))

\* the second element of a repeated message field has been opened
C4_Witness ==
    /\ last.ev = "start_map"
    /\ status = "running"
    /\ IsNestedObject(location)
    /\ is_repeated(NodeAt(location).field)
    /\ Len(heap[Back(last.pre.msgStack)].val[NodeAt(location).name]) = 2

\* what the setter or adder of a field of type ftype keeps of argument v
Stored(ftype, ev, v) ==
    CASE ftype = "TYPE_BOOL" -> (v # 0)
      [] ftype \in {"TYPE_FLOAT", "TYPE_DOUBLE"} /\ ev = "integer" -> v + v
      [] OTHER -> v

ScalarEvents == {"boolean", "integer", "double", "string"}

\* C5: a scalar event that is accepted leaves the object stack as it was; at
\* the state of a non-repeated field the field of the stack top is set to
\* the value and location is the parent state; at an array element state the
\* value is appended and location stays, and there every further scalar case
\* keeps location, so that only end_array leaves the element state.
C5_Scalar ==
    (last.ev \in ScalarEvents /\ status = "running") =>
        LET n == last.pre.location
            f == NodeAt(n).name
            top == Back(msgStack)
            x == Stored(NodeAt(n).field.type, last.ev, last.arg)
        IN  /\ IsNode(n)
            /\ msgStack = last.pre.msgStack
            /\ msgStack # <<>>
            /\ IF is_repeated(NodeAt(n).field)
               THEN /\ ParentOf(n).type = "ARRAY"
                    /\ location = n
                    /\ heap = [last.pre.heap EXCEPT ![top].val[f] = Append(@, x)]
                    /\ \A ev \in ScalarEvents \cup {"null", "start_map", "map_key",
                                                   "end_map", "start_array"} :
                           \A i \in 1 .. Len(Emitted[schema][ev]) :
                               Emitted[schema][ev][i].label = n =>
                                   (ev \in ScalarEvents
                                       /\ ~Emitted[schema][ev][i].set)
                    /\ Accepts("end_array", n)
               ELSE /\ ParentOf(n).type = "INSIDE_OBJECT"
                    /\ location = ParentOf(n).state
                    /\ heap = [last.pre.heap EXCEPT ![top].val[f] = << x >>]

\* a third element has been appended to a repeated scalar field
C5_Witness ==
    /\ last.ev \in ScalarEvents
    /\ status = "running"
    /\ is_repeated(NodeAt(location).field)
    /\ Len(heap[Back(msgStack)].val[NodeAt(location).name]) = 3

\* C6: start_array is accepted exactly at the states of ARRAY nodes and sets
\* location to the state of the node's single child; end_array is accepted
\* exactly at the states of those children and sets location to the state of
\* the ARRAY node's parent; both leave the object stack and the target
\* message as they were.
C6_Arrays ==
    /\ last.ev = "start_array" =>
           IF IsNode(last.pre.location) /\ NodeAt(last.pre.location).type = "ARRAY"
           THEN /\ status = "running"
                /\ Len(NodeAt(last.pre.location).children) = 1
                /\ location = NodeAt(NodeAt(last.pre.location).children[1]).state
                /\ msgStack = last.pre.msgStack
                /\ heap = last.pre.heap
           ELSE status = "exit" /\ Unchanged
    /\ last.ev = "end_array" =>
           IF /\ IsNode(last.pre.location)
              /\ NodeAt(last.pre.location).parent # 0
              /\ ParentOf(last.pre.location).type = "ARRAY"
           THEN /\ status = "running"
                /\ location = Graph.nodes[ParentOf(last.pre.location).parent].state
                /\ NodeAt(location).type = "INSIDE_OBJECT"
                /\ msgStack = last.pre.msgStack
                /\ heap = last.pre.heap
           ELSE status = "exit" /\ Unchanged

\* an empty array has been closed: the repeated field is still empty
C6_Witness ==
    /\ last.ev = "end_array"
    /\ status = "running"
    /\ last.pre.heap = ClearedReq(schema)
    /\ heap = ClearedReq(schema)
    /\ NodeAt(location).type = "INSIDE_OBJECT"
\* a node at a field position: a child of an INSIDE_OBJECT node
IsFieldNode(loc) ==
    IsNode(loc) /\ NodeAt(loc).parent # 0 /\ ParentOf(loc).type = "INSIDE_OBJECT"

\* the element node of an array
IsElementNode(loc) ==
    IsNode(loc) /\ NodeAt(loc).parent # 0 /\ ParentOf(loc).type = "ARRAY"

\* C7: null at the state of an optional field clears that field of the stack
\* top (nothing else changes) and sets location to the parent state; null at
\* the state of a field that is not optional (a required field, an ARRAY
\* node) or of an array element ends the parse and clears nothing.
C7_Null ==
    (last.ev = "null"
        /\ (IsFieldNode(last.pre.location) \/ IsElementNode(last.pre.location)))
    => LET n == last.pre.location
       IN  IF IsFieldNode(n) /\ is_optional(NodeAt(n).field)
           THEN /\ status = "running"
                /\ msgStack = last.pre.msgStack
                /\ msgStack # <<>>
                /\ heap = [last.pre.heap EXCEPT
                              ![Back(msgStack)].val[NodeAt(n).name] = <<>>]
                /\ location = ParentOf(n).state
           ELSE status = "exit" /\ Unchanged

\* null has cleared an optional field that held a value
C7_Witness ==
    /\ last.ev = "null"
    /\ status = "running"
    /\ IsFieldNode(last.pre.location)
    /\ last.pre.heap[Back(msgStack)].val[NodeAt(last.pre.location).name] # <<>>
    /\ heap[Back(msgStack)].val[NodeAt(last.pre.location).name] = <<>>

\* C8: an integer v at the state of a BOOL node (a non-repeated field or an
\* array element) is accepted, stores FALSE for 0 and TRUE for every other v,
\* and leaves the state that the bool event for that truth value leaves.
C8_IntegerAsBool ==
    (last.ev = "integer" /\ IsNode(last.pre.location)
        /\ NodeAt(last.pre.location).type = "BOOL")
    => LET n == last.pre.location
           now == heap[Back(msgStack)].val[NodeAt(n).name]
       IN  /\ status = "running"
           /\ msgStack # <<>>
           /\ now # <<>>
           /\ Back(now) = (last.arg # 0)
           /\ St \in parse_pod(schema, last.pre, "boolean",
                               IF last.arg = 0 THEN 0 ELSE 1)

\* an integer other than 0 and 1 has been stored in a bool field
C8_Witness ==
    /\ last.ev = "integer"
    /\ last.arg \notin {0, 1}
    /\ IsNode(last.pre.location)
    /\ NodeAt(last.pre.location).type = "BOOL"
    /\ status = "running"
    /\ Back(heap[Back(msgStack)].val[NodeAt(last.pre.location).name]) = TRUE

HandlerEvents ==
    {"null", "boolean", "integer", "double", "string", "start_map", "map_key",
     "end_map", "start_array", "end_array"}

\* C9: an event that finds location at none of the case labels emitted for
\* it is a structural error: the handler takes its default case, which ends
\* the parse, and location, the object stack and the target message are as
\* the event found them; every event but start_map does so at location 0.
C9_Default ==
    /\ (last.ev \in HandlerEvents /\ ~Accepts(last.ev, last.pre.location))
       => (status = "exit" /\ Unchanged)
    /\ (last.ev \in HandlerEvents \ {"start_map"} /\ last.pre.location = 0)
       => (status = "exit" /\ Unchanged)

ChildrenNamed(loc, key) ==
    {c \in 1 .. Len(Graph.nodes) :
        NodeAt(c).parent = loc /\ NodeAt(c).name = key}

\* C10: map_key k at the state of an INSIDE_OBJECT node sets location to the
\* state of the child named k and leaves the object stack (and the message)
\* as it was; if the node has no child named k, the parse ends there.
C10_MapKey ==
    (last.ev = "map_key" /\ IsNode(last.pre.location)
        /\ NodeAt(last.pre.location).type = "INSIDE_OBJECT")
    => IF ChildrenNamed(last.pre.location, last.arg) = {}
       THEN status = "exit" /\ Unchanged
       ELSE /\ status = "running"
            /\ location \in ChildrenNamed(last.pre.location, last.arg)
            /\ msgStack = last.pre.msgStack
            /\ heap = last.pre.heap

(***************************************************************************)
(* Claims about the generator process (GenSpec).                           *)
(***************************************************************************)
\* two children of one INSIDE_OBJECT node of g whose names have the same hash
KeyHashCollision(g) ==
    \E n \in 1 .. Len(g.nodes) :
        /\ g.nodes[n].type = "INSIDE_OBJECT"
        /\ \E i, j \in 1 .. Len(g.nodes[n].children) :
               /\ i < j
               /\ Hash(g.nodes[g.nodes[n].children[i]].name)
                      = Hash(g.nodes[g.nodes[n].children[j]].name)

\* an inner `switch (hash)` of parse_map_key with the same case label twice
DuplicateCaseLabels(cases) ==
    \E c \in 1 .. Len(cases) :
        \E i, j \in 1 .. Len(cases[c].keys) :
            i < j /\ cases[c].keys[i].hash = cases[c].keys[j].hash

\* C11: when two field names of one message have the same key hash, the
\* generator does not go on to the emitter: it writes no file and ends with
\* KeyHashCollisionError; no source it writes has an inner switch with a
\* case label twice.
C11_KeyHashCollision ==
    /\ KeyHashCollision(gen.graph)
           => /\ gen.pc \notin {"header", "source", "return"}
              /\ gen.files = {}
              /\ gen.pc = "done" => gen.error = "KeyHashCollisionError"
    /\ "source" \in gen.files
           => ~DuplicateCaseLabels(printMapKeyImpl(gen.graph))

\* the field types of protobuf that have a JSON value in the parser
SupportedTypes ==
    {"TYPE_BOOL", "TYPE_INT32", "TYPE_INT64", "TYPE_UINT32", "TYPE_FIXED32",
     "TYPE_FIXED64", "TYPE_SFIXED32", "TYPE_SFIXED64", "TYPE_SINT32",
     "TYPE_SINT64", "TYPE_FLOAT", "TYPE_DOUBLE", "TYPE_STRING", "TYPE_MESSAGE",
     "TYPE_ENUM"}

\* the fields of message m of schema sch
FieldSet(sch, m) == {sch.msgs[m][i] : i \in 1 .. Len(sch.msgs[m])}

RECURSIVE ReachedFrom(_, _, _)
\* the messages reached from those in ms through at most k message fields
ReachedFrom(sch, ms, k) ==
    IF k = 0 THEN ms
    ELSE ReachedFrom(sch,
                     ms \cup {f.msg : f \in {x \in UNION {FieldSet(sch, m) : m \in ms} :
                                               x.type = "TYPE_MESSAGE"}},
                     k - 1)

\* the messages a walk from the root message comes to
WalkedMessages(sch) ==
    ReachedFrom(sch, {sch.root}, Cardinality(DOMAIN sch.msgs))

DeclaresUnsupported(sch) ==
    \E m \in WalkedMessages(sch) :
        \E f \in FieldSet(sch, m) : f.type \notin SupportedTypes

\* C12: when the root message or a message the walk reaches declares a field
\* of type uint64 or bytes (or of any type outside the supported ones), graph
\* construction fails with an error: the process ends there with a failure,
\* the emitter is never run and no file is written.  Graph construction
\* fails for no other schema.
C12_UnsupportedType ==
    /\ DeclaresUnsupported(GenSchemas[gen.schema])
           => /\ gen.pc \notin {"header", "source", "return"}
              /\ gen.files = {}
              /\ gen.pc = "done" => (gen.exit # "none" /\ gen.code # 0)
    /\ gen.graph.failed
           => /\ DeclaresUnsupported(GenSchemas[gen.schema])
              /\ gen.pc = "done"
              /\ gen.error = "Unsupported protobuf type"
    /\ (gen.pc = "done" /\ gen.error \in {"", "Unsupported protobuf type"}
           /\ DeclaresUnsupported(GenSchemas[gen.schema]))
           => gen.graph.failed

\* the walk has met the uint64 field of a nested message and the process
\* has ended
C12_Witness ==
    /\ gen.pc = "done"
    /\ gen.graph.failed
    /\ GenSchemas[gen.schema].root = "Wide"
    /\ gen.exit = "terminate"
    /\ gen.files = {}

\* C13: the generator process ends by a clean exit, with status 0 when both
\* files have been written and with status 1 on every failure (argc, the
\* schema file not opening, not parsing, rejected by the pool, the message
\* not found, an unsupported field type, an output file not writable).
C13_ExitStatus ==
    gen.pc = "done" =>
        /\ gen.exit = "exit"
        /\ gen.code = (IF gen.files = {"header", "source"} THEN 0 ELSE 1)

\* parseMessageDesc has returned
GraphBuiltOk ==
    gen.graph.all_nodes # <<>> /\ ~gen.graph.failed /\ ~gen.graph.overflow

\* C20: in the graph built from a schema, with N nodes, the root has state 1
\* and no parent and is the only such node; the states of the nodes are
\* exactly 1 .. N, no two nodes have the same state and none has state 0;
\* the state of every other node is greater than its parent's.
C20_States ==
    GraphBuiltOk =>
        LET g == gen.graph
            N == Len(g.nodes)
        IN  /\ g.nodes[1].state = 1
            /\ g.nodes[1].parent = 0
            /\ g.nodes[1].type = "INSIDE_OBJECT"
            /\ {g.nodes[i].state : i \in 1 .. N} = 1 .. N
            /\ \A i, j \in 1 .. N : g.nodes[i].state = g.nodes[j].state => i = j
            /\ \A i \in 1 .. N : g.nodes[i].state # 0
            /\ \A i \in 2 .. N :
                   /\ g.nodes[i].parent \in 1 .. N
                   /\ i \in {g.nodes[g.nodes[i].parent].children[k] :
                               k \in 1 .. Len(g.nodes[g.nodes[i].parent].children)}
                   /\ g.nodes[i].state > g.nodes[g.nodes[i].parent].state
            /\ g.stateCounter = N
            /\ Len(g.all_nodes) = N

\* a graph of more than ten nodes with a node four levels under the root
C20_Witness ==
    /\ GraphBuiltOk
    /\ Len(gen.graph.nodes) > 10
    /\ \E i \in 1 .. Len(gen.graph.nodes) :
           LET up(n) == gen.graph.nodes[n].parent
           IN  up(i) # 0 /\ up(up(i)) # 0 /\ up(up(up(i))) # 0
               /\ up(up(up(up(i)))) # 0

(***************************************************************************)
(* Claims about reset (Spec).                                              *)
(***************************************************************************)
\* C15: <t>_parser_reset leaves location 0, an empty object stack and a
\* cleared target message; the tokenizer handle, the configuration and the
\* message the state is bound to are as it found them, and it returns 0.
C15_ResetFrame ==
    last.ev = "reset" =>
        /\ location = 0
        /\ msgStack = <<>>
        /\ heap = << NewMessage(schema, Schemas[schema].root) >>
        /\ yajl = last.handle
        /\ config = last.pre.config
        /\ config.checkInitialized
        /\ req = last.pre.req
        /\ heap[req].type = Schemas[schema].root
        /\ status = last.pre.status
        /\ last.rc = 0

\* reset has been called inside a nested object of a half-fed document whose
\* message held values
C15_Witness ==
    /\ last.ev = "reset"
    /\ last.pre.location # 0
    /\ Len(last.pre.msgStack) >= 2
    /\ Len(last.pre.heap) >= 2
    /\ Len(yajl) >= 3

(***************************************************************************)
(* The chunk API run on a state that init has just made: the document's    *)
(* bytes are fed in chunks of the lengths in cuts and, when completed, the  *)
(* parse is completed.  A run is [h, rcs]; a run whose handler has ended   *)
(* the process makes no more calls.                                        *)
(***************************************************************************)
Dead(run) == run.h.st.status # "running"

\* the runs after one more call, whose results on handle h are calls(h)
AfterCall(runs, calls(_)) ==
    UNION { IF Dead(run) THEN { run }
            ELSE { [h |-> r.h, rcs |-> Append(run.rcs, r.rc)] : r \in calls(run.h) }
              : run \in runs }

RECURSIVE FeedCuts(_, _, _, _)
FeedCuts(s, runs, bytes, cuts) ==
    IF cuts = <<>> THEN runs
    ELSE LET chunk == SubSeq(bytes, 1, Head(cuts))
             on_chunk(h) == parser_on_chunk(s, h, chunk)
         IN  FeedCuts(s, AfterCall(runs, on_chunk),
                      SubSeq(bytes, Head(cuts) + 1, Len(bytes)), Tail(cuts))

FreshRun(s, doc, cuts, completed) ==
    LET fed == FeedCuts(s, { [h |-> handle_init(s), rcs |-> <<>>] }, Bytes(doc), cuts)
        complete(h) == parser_complete(s, h)
    IN  IF completed THEN AfterCall(fed, complete) ELSE fed

\* the caller has called complete since init or the last reset
ApiCompleted == Len(api.rcs) > Len(api.cuts)

\* what a claim compares of a run: the values returned and the target message
Outcome(rcs, h) == [rcs |-> rcs, heap |-> h.st.heap]

\* C14: after any calls of on_chunk and complete (a partial document, a
\* completed one, a failed parse), reset followed by parsing a document
\* returns the same values and leaves the same target message as parsing
\* that document on a state init has just made.
C14_ResetAsFresh ==
    (api.pc # "idle" /\ api.resets > 0) =>
        Outcome(api.rcs, api.h)
            \in { Outcome(run.rcs, run.h)
                    : run \in FreshRun(api.schema, api.doc, api.cuts, ApiCompleted) }

\* the events delivered and the final location, stack and message of a run
Final(h) == [evs |-> h.evs, location |-> h.st.location,
             msgStack |-> h.st.msgStack, heap |-> h.st.heap,
             status |-> h.st.status]

\* the whole document has gone through on_chunk and complete, or a handler
\* ended the process on the way
ApiWholeFed ==
    \/ api.pc = "completed" /\ api.pos = Len(Bytes(api.doc))
    \/ api.pc = "dead" /\ ~ApiCompleted
    \/ api.pc = "dead" /\ api.pos = Len(Bytes(api.doc))

\* C16: however the bytes of a document are cut into on_chunk calls, the
\* calls followed by complete deliver the same events and leave the same
\* location, stack and message as one on_chunk call with all the bytes
\* followed by complete.
C16_Chunking ==
    (api.pc # "idle" /\ api.resets = 0 /\ ApiWholeFed) =>
        Final(api.h)
            \in { Final(run.h)
                    : run \in FreshRun(api.schema, api.doc,
                                       << Len(Bytes(api.doc)) >>, TRUE) }

\* a document fed in three chunks, the first cut inside the key and the
\* second inside the number, parsed without an error and its value stored
C16_Witness ==
    /\ api.pc = "completed"
    /\ api.resets = 0
    /\ api.doc = << LBrace, StrTok("n"), IntTok(-3), RBrace >>
    /\ api.cuts = << 2, 2, 2 >>
    /\ api.rcs = << 0, 0, 0, 0 >>
    /\ api.h.evs = << << "start_map", 0 >>, << "map_key", "n" >>,
                      << "integer", -3 >>, << "end_map", 0 >> >>
    /\ api.h.st.heap[1].val["n"] = << -3 >>

\* C18: easy calls init, on_chunk, complete and free in this order, and on
\* every way out (the return, a failed on_chunk, a failed complete) the
\* state has been freed before easy returns or raises.
C18_EasyFrees ==
    easy.outcome \in {"returned", "raised"} => ~easy.allocated

\* the parse of easy's document met a tokenizer error (a call returned
\* non-zero) or a structural error (a handler came to its default case)
EasyParseFailed == StatusCode(easy.h) # 0 \/ easy.h.st.status = "exit"

\* C19: easy reports a tokenizer error and a structural error alike by
\* raising ParseError with the diagnostic; it neither returns a message nor
\* ends the process.
C19_EasyParseError ==
    (easy.pc = "done" /\ EasyParseFailed) =>
        easy.outcome = "raised" /\ easy.err # ""

\* the state object and handle that belong to instance i
OwnHandle(i) ==
    [st |-> pair.store[i], y |-> pair.hd[i].y, buf |-> pair.hd[i].buf,
     evs |-> pair.hd[i].evs]

\* instance i is as it is when the calls made on it are made on it alone
AsAlone(i) ==
    Final(OwnHandle(i))
        \in { Final(run.h)
                : run \in FreshRun(pair.schema, pair.docs[i], pair.cuts[i],
                                   pair.completed[i]) }

\* C17: two independently initialised parser states share no mutable
\* storage: under every interleaving of the calls on two instances each has
\* the location, stack and target message it has when it is run alone on
\* the calls made on it, and two instances that parsed the same document
\* have equal messages.
C17_Independent ==
    pair.pc # "idle" =>
        /\ \A i \in Instances : AsAlone(i)
        /\ (/\ pair.docs[1] = pair.docs[2]
            /\ pair.completed[1]
            /\ pair.completed[2]
            /\ ~pair.dead)
               => pair.store[1].heap = pair.store[2].heap

\* both instances are in the middle of their documents at once: the first
\* has stored its number and is back at the root, the second has just read
\* the key of another document
C17_Witness ==
    /\ pair.pc # "idle"
    /\ ~pair.dead
    /\ pair.docs[1] = << LBrace, StrTok("n"), IntTok(-3), RBrace >>
    /\ pair.docs[2] = << LBrace, StrTok("n"), IntTok(1) >>
    /\ pair.cuts[1] = << 1, 2, 2, 1 >>
    /\ pair.cuts[2] = << 1, 2 >>
    /\ ~pair.completed[1]
    /\ pair.store[1].heap[1].val["n"] = << -3 >>
    /\ pair.store[1].location = 0
    /\ pair.store[2].location # pair.store[1].location
    /\ pair.store[2].heap[1].val["n"] = <<>>

(***************************************************************************)
(* Claims about the built graph and the case tables (GenSpec).             *)
(***************************************************************************)
\* the schema file was loaded and the root message found: main has called
\* graph.parseMessageDesc() and the call is over
WalkOver ==
    /\ gen.argc = 4
    /\ gen.env.openable /\ gen.env.parses /\ gen.env.builds /\ gen.env.found
    /\ gen.pc \notin {"main", "open", "parse", "build", "find", "graph"}

\* C26: for every loadable schema and root message (whose types are all
\* supported), graph construction terminates and returns a finite graph,
\* also when a message type contains, directly or through other messages,
\* a repeated or non-repeated field of its own type.
C26_Terminates ==
    (WalkOver /\ ~DeclaresUnsupported(GenSchemas[gen.schema])) => GraphBuiltOk

\* the node types of scalar nodes
ScalarNodeTypes == {"BOOL", "LONG", "DOUBLE", "STRING"}

\* the nodes of the built graph, and the type of the k-th child of node n
GNodes == 1 .. Len(gen.graph.nodes)

ChildType(n, k) == gen.graph.nodes[gen.graph.nodes[n].children[k]].type

\* C21: in every built graph every Array node has exactly one child, a scalar
\* node or a KeyIntoMessage node; every KeyIntoMessage node has exactly one
\* child, an InsideMessage node; scalar nodes have no children.
C21_Shape ==
    GraphBuiltOk =>
        \A n \in GNodes :
            LET node == gen.graph.nodes[n]
            IN  /\ node.type = "ARRAY" =>
                       /\ Len(node.children) = 1
                       /\ ChildType(n, 1) \in ScalarNodeTypes \cup {"OUTSIDE_OBJECT"}
                /\ node.type = "OUTSIDE_OBJECT" =>
                       /\ Len(node.children) = 1
                       /\ ChildType(n, 1) = "INSIDE_OBJECT"
                /\ node.type \in ScalarNodeTypes => node.children = <<>>
                /\ node.type \in ScalarNodeTypes
                                    \cup {"ARRAY", "OUTSIDE_OBJECT", "INSIDE_OBJECT"}

\* a built graph with an Array of messages (Array, KeyIntoMessage,
\* InsideMessage in a chain), a scalar node under an InsideMessage node and a
\* KeyIntoMessage node that is no array element
C21_Witness ==
    /\ GraphBuiltOk
    /\ \E a \in GNodes :
           /\ gen.graph.nodes[a].type = "ARRAY"
           /\ ChildType(a, 1) = "OUTSIDE_OBJECT"
           /\ ChildType(gen.graph.nodes[a].children[1], 1) = "INSIDE_OBJECT"
    /\ \E c \in GNodes :
           /\ gen.graph.nodes[c].type \in ScalarNodeTypes
           /\ gen.graph.nodes[c].children = <<>>
    /\ \E k \in GNodes :
           /\ gen.graph.nodes[k].type = "OUTSIDE_OBJECT"
           /\ gen.graph.nodes[gen.graph.nodes[k].parent].type = "INSIDE_OBJECT"

\* the message whose fields an InsideMessage node n stands for: the root
\* message, or the message type of the field the node was injected for
MessageOf(n) ==
    IF gen.graph.nodes[n].parent = 0 THEN GenSchemas[gen.schema].root
    ELSE gen.graph.nodes[n].field.msg

\* the field children: the direct children of InsideMessage nodes
FieldChildren ==
    {c \in GNodes : gen.graph.nodes[c].parent # 0
                    /\ gen.graph.nodes[gen.graph.nodes[c].parent].type = "INSIDE_OBJECT"}

\* the InsideMessage node of the occurrence of a message-typed field whose
\* field child is c: under the key node, or under the element of the array
InsideOf(c) ==
    LET node == gen.graph.nodes[c]
    IN  IF node.type = "ARRAY"
        THEN gen.graph.nodes[node.children[1]].children[1]
        ELSE node.children[1]

\* C22: every InsideMessage node has exactly one child per field declared in
\* its message, in declaration order, each named after its field; and every
\* occurrence of a message-typed field has an InsideMessage subtree of its
\* own, so that two fields of one message type have distinct nodes with
\* distinct states.
C22_Fields ==
    GraphBuiltOk =>
        LET g == gen.graph
            occ == {c \in FieldChildren : g.nodes[c].field.type = "TYPE_MESSAGE"}
        IN  /\ \A n \in GNodes :
                   g.nodes[n].type = "INSIDE_OBJECT" =>
                       LET fs == GenSchemas[gen.schema].msgs[MessageOf(n)]
                       IN  /\ Len(g.nodes[n].children) = Len(fs)
                           /\ \A k \in 1 .. Len(fs) :
                                  /\ g.nodes[g.nodes[n].children[k]].name = fs[k].name
                                  /\ g.nodes[g.nodes[n].children[k]].field = fs[k]
                                  /\ g.nodes[g.nodes[n].children[k]].parent = n
            /\ \A c \in occ :
                   /\ g.nodes[InsideOf(c)].type = "INSIDE_OBJECT"
                   /\ MessageOf(InsideOf(c)) = g.nodes[c].field.msg
            /\ \A c, d \in occ :
                   c # d => /\ InsideOf(c) # InsideOf(d)
                            /\ g.nodes[InsideOf(c)].state # g.nodes[InsideOf(d)].state
            /\ Cardinality({n \in GNodes : g.nodes[n].type = "INSIDE_OBJECT"})
                   = Cardinality(occ) + 1

\* two fields of message type Point, one of them repeated, each with an
\* InsideMessage node of its own that has Point's three fields as children
C22_Witness ==
    /\ GraphBuiltOk
    /\ \E c, d \in FieldChildren :
           /\ c # d
           /\ gen.graph.nodes[c].field.msg = "Point"
           /\ gen.graph.nodes[d].field.msg = "Point"
           /\ gen.graph.nodes[c].type = "ARRAY"
           /\ gen.graph.nodes[d].type = "OUTSIDE_OBJECT"
           /\ InsideOf(c) # InsideOf(d)
           /\ Len(gen.graph.nodes[InsideOf(c)].children) = 3
           /\ Len(gen.graph.nodes[InsideOf(d)].children) = 3

\* the nodes in a category list, and the case labels of a dispatch routine
Members(list) == {list[i] : i \in 1 .. Len(list)}

Labels(cases) == {cases[i].label : i \in 1 .. Len(cases)}

\* C23: in every built graph bool_nodes and double_nodes are subsets of
\* long_nodes, so that the integer handler has a case for every state the
\* boolean or the double handler has one for; string, InsideMessage,
\* KeyIntoMessage and Array nodes are never in long_nodes.
C23_Widening ==
    GraphBuiltOk =>
        LET g == gen.graph
            long == Members(g.long_nodes)
        IN  /\ Members(g.bool_nodes) \subseteq long
            /\ Members(g.double_nodes) \subseteq long
            /\ \A n \in GNodes :
                   g.nodes[n].type \in {"STRING", "INSIDE_OBJECT", "OUTSIDE_OBJECT",
                                        "ARRAY"}
                       => n \notin long
            /\ \A n \in GNodes :
                   g.nodes[n].type \in {"BOOL", "LONG", "DOUBLE"} => n \in long
            /\ Labels(printPodImpl(g, g.bool_nodes))
                   \cup Labels(printPodImpl(g, g.double_nodes))
                   \subseteq Labels(printPodImpl(g, g.long_nodes))

\* a built graph with a double node, which is in long_nodes beside an
\* integer node, and string nodes and an Array, which are not
C23_Witness ==
    /\ GraphBuiltOk
    /\ \E n \in Members(gen.graph.double_nodes) :
           /\ gen.graph.nodes[n].type = "DOUBLE"
           /\ n \in Members(gen.graph.long_nodes)
    /\ \E n \in Members(gen.graph.long_nodes) : gen.graph.nodes[n].type = "LONG"
    /\ gen.graph.string_nodes # <<>>
    /\ gen.graph.array_nodes # <<>>

\* C24: nullable_nodes holds exactly the field children (the direct children
\* of InsideMessage nodes) whose field is declared optional; no injected
\* InsideMessage node and no array element node is in it, so that the null
\* handler has cases only for states that a map_key enters.
C24_Nullable ==
    GraphBuiltOk =>
        /\ Members(gen.graph.null_nodes)
               = {c \in FieldChildren : is_optional(gen.graph.nodes[c].field)}
        /\ Labels(printNullImpl(gen.graph))
               = {gen.graph.nodes[c].state :
                    c \in {d \in FieldChildren : is_optional(gen.graph.nodes[d].field)}}

\* no element is in the sequence twice
Distinct(seq) == \A i, j \in 1 .. Len(seq) : seq[i] = seq[j] => i = j

\* the case labels of a dispatch routine, in the order printed
LabelSeq(cases) == [i \in 1 .. Len(cases) |-> cases[i].label]

\* C25: the emitted automaton is deterministic: each node is at most once in
\* each category list, and in the `switch (state.location)` of every handler
\* the case labels (node states; parent states and 0 for start_map; element
\* states for end_array) are pairwise distinct, so that for every event and
\* location at most one case is selected.
C25_Deterministic ==
    GraphBuiltOk =>
        LET g == gen.graph
            tables == printSourceImpl(g)
        IN  /\ \A l \in {"all_nodes", "null_nodes", "bool_nodes", "long_nodes",
                         "double_nodes", "string_nodes", "object_nodes",
                         "key_nodes", "array_nodes"} : Distinct(g[l])
            /\ \A ev \in DOMAIN tables :
                   /\ Distinct(LabelSeq(tables[ev]))
                   /\ \A loc \in 0 .. Len(g.nodes) :
                          Len(SwitchCase(tables[ev], loc)) <= 1
            /\ Labels(tables.start_map)
                   = {0} \cup {g.nodes[g.nodes[n].parent].state :
                                 n \in Members(g.object_nodes) \ {1}}
            /\ Labels(tables.end_array)
                   = {g.nodes[g.nodes[n].children[1]].state : n \in Members(g.array_nodes)}

\* a built graph whose start_map routine has the case 0 and the cases of
\* three parent states, whose end_array routine has two cases, and whose
\* integer routine has more cases than its boolean routine
C25_Witness ==
    /\ GraphBuiltOk
    /\ Len(printMapStartImpl(gen.graph)) >= 4
    /\ Len(printArrayEndImpl(gen.graph)) >= 2
    /\ Len(gen.graph.long_nodes) > Len(gen.graph.bool_nodes)

(***************************************************************************)
(* Claims about the object stack (Spec).                                   *)
(***************************************************************************)
RECURSIVE InsidePath(_)
\* the InsideMessage nodes on the path from the root to node n, n included,
\* from the root down
InsidePath(n) ==
    IF n = 0 THEN <<>>
    ELSE InsidePath(NodeAt(n).parent)
         \o (IF NodeAt(n).type = "INSIDE_OBJECT" THEN << n >> ELSE <<>>)

\* the message type an InsideMessage node of the parser's graph stands for
NodeMessage(n) ==
    IF NodeAt(n).parent = 0 THEN Schemas[schema].root ELSE NodeAt(n).field.msg

\* C27: in every state reached from a fresh init by tokenizer-legal events
\* with no reset, location is 0 exactly when the object stack is empty, and
\* when location is the state of node n the stack is as deep as there are
\* InsideMessage nodes on the path from the root to n (n included), its
\* bottom is the target message, each entry above is the sub-message that
\* the entry below holds in the field of the corresponding node, and so the
\* top is the message instance of the nearest InsideMessage
\* ancestor-or-self of n.
C27_StackDiscipline ==
    (status = "running" /\ nResets = 0) =>
        /\ location = 0 <=> msgStack = <<>>
        /\ location # 0 =>
               /\ IsNode(location)
               /\ LET path == InsidePath(location)
                  IN  /\ Len(msgStack) = Len(path)
                      /\ msgStack[1] = req
                      /\ \A k \in 1 .. Len(path) :
                             /\ heap[msgStack[k]].type = NodeMessage(path[k])
                             /\ k > 1 =>
                                    /\ heap[msgStack[k - 1]].val[NodeAt(path[k]).name] # <<>>
                                    /\ msgStack[k]
                                           = Back(heap[msgStack[k - 1]].val[NodeAt(path[k]).name])

\* three messages deep: location is the state of a field of a Leaf in a
\* Point in the target message, and the stack holds the three messages
C27_Witness ==
    /\ status = "running"
    /\ nResets = 0
    /\ IsNode(location)
    /\ Len(InsidePath(location)) = 3
    /\ NodeAt(location).type = "STRING"
    /\ Len(msgStack) = 3
    /\ heap[Back(msgStack)].type = "Leaf"

\* the handler of the last event has read state.msgStack.back(): a selected
\* case of a scalar, string or null handler, a selected case of start_map
\* other than `case 0`, or the initialization check of end_map
ReadsStackTop ==
    \/ /\ last.ev \in {"null", "boolean", "integer", "double", "string"}
       /\ Accepts(last.ev, last.pre.location)
    \/ /\ last.ev = "start_map"
       /\ last.pre.location # 0
       /\ Accepts(last.ev, last.pre.location)
    \/ /\ last.ev = "end_map"
       /\ last.pre.config.checkInitialized

\* C28: for every sequence of init, on_chunk, reset and complete calls, a
\* reset in the middle of a document included, no handler reads the top of
\* an empty object stack: whenever a handler accesses the stack top, the
\* stack is not empty.
C28_StackTop == ReadsStackTop => last.pre.msgStack # <<>>

(***************************************************************************)
(* The casts of the emitted cases (GenSpec).                               *)
(***************************************************************************)
RECURSIVE NearestInside(_)
\* the nearest InsideMessage ancestor-or-self of node n of the built graph
NearestInside(n) ==
    IF gen.graph.nodes[n].type = "INSIDE_OBJECT" THEN n
    ELSE NearestInside(gen.graph.nodes[n].parent)

\* the emitted cases that cast the stack top: those of the null, boolean,
\* integer, double and string handlers and of start_map, `case 0` excepted
CastingCases ==
    LET tables == printSourceImpl(gen.graph)
    IN  UNION {{tables[ev][i] : i \in 1 .. Len(tables[ev])}
                 : ev \in {"null", "boolean", "integer", "double", "string",
                           "start_map"}}
            \ {c \in Members(printMapStartImpl(gen.graph)) : c.label = 0}

\* C29: every emitted case that casts the stack top to a message type casts
\* it to the type of the message the stack discipline has on top when location
\* is the case's label: the message of the nearest InsideMessage
\* ancestor-or-self of the node whose state is the label.
C29_Casts ==
    GraphBuiltOk =>
        \A c \in CastingCases : c.cast = MessageOf(NearestInside(c.label))
====
